---- MODULE Spec2Model ----
(***************************************************************************)
(* State-machine model of libgig's Serialization framework                 *)
(* (src/trunk/src/Serialization.cpp): the reflection data model, the       *)
(* "Srx1v" codec (Archive::encode / Archive::decode) and the Syncer that   *)
(* binds a decoded source pool onto the destination pool of the live       *)
(* receiver graph.                                                         *)
(*                                                                         *)
(* Conventions                                                             *)
(*  - a String is a sequence of one-character strings;                     *)
(*  - a RawData value holding primitive bytes is a sequence of bytes       *)
(*    0..255, least significant byte first (little endian host);           *)
(*  - a pointer (ID) is an integer address, NULL being 0 and the          *)
(*    all-ones pointer being -1;                                           *)
(*  - an ObjectPool is a function from UIDs to Objects.                    *)
(***************************************************************************)
EXTENDS Integers, Sequences, FiniteSets, TLC

VARIABLES
    snd,      \* the archive of the sender, walked from its live graph and encoded
    src,      \* the archive the receiver decodes the stream into; m_src of the Syncer
    dst,      \* the archive walked from the live receiver graph; m_dst
    smem,     \* live memory of the sender (read by encode through the handles)
    mem,      \* live memory of the receiver (written by syncPrimitive)
    phase,    \* position of the program
    err,      \* message of the Exception that ended the run ("" if none)
    stack,    \* call stack of the Syncer: the open syncObject invocations
    calls,    \* history: number of syncObject invocations past the validity check
    pairs,    \* history: the (dst, src) pairs that passed the validity check
    writes,   \* history: the memcpy calls of syncPrimitive
    matches,  \* history: the calls of dstMemberMatching with what they returned
    src0,     \* history: the source pool when the Syncer started
    dst0,     \* history: the destination pool when the Syncer started
    sc,       \* the scenario (input graphs) the run was started with
    clock,    \* what time(NULL) returns next
    arg,      \* the input that a function under study is applied to
    res       \* what the operation applied last returned

vars == <<snd, src, dst, smem, mem, phase, err, stack, calls, pairs, writes, matches, src0, dst0, sc, clock, arg, res>>

----------------------------------------------------------------------------
(* Strings used by the program.                                            *)

EmptyString == <<>>
S_class == <<"c","l","a","s","s">>
S_int8 == <<"i","n","t","8">>
S_uint8 == <<"u","i","n","t","8">>
S_int16 == <<"i","n","t","1","6">>
S_int32 == <<"i","n","t","3","2">>
S_int64 == <<"i","n","t","6","4">>
S_bool == <<"b","o","o","l">>
S_enum == <<"e","n","u","m">>
MAGIC_START == <<"S","r","x","1","v">>

\* String::substr(0, n)
substr0(s, n) == SubSeq(s, 1, IF n < Len(s) THEN n ELSE Len(s))

----------------------------------------------------------------------------
(* UID                                                                     *)

UID(id, size) == [id |-> id, size |-> size]

NO_UID == UID(0, 0)

UID_isValid(uid) == uid.id # 0 /\ uid.id # -1 /\ uid.size # 0

----------------------------------------------------------------------------
(* DataType                                                                *)

DataType0 == [m_baseTypeName |-> EmptyString, m_customTypeName |-> EmptyString, m_size |-> 0, m_isPointer |-> FALSE]

DataType(isPointer, size, baseType, customType) == [m_baseTypeName |-> baseType, m_customTypeName |-> customType, m_size |-> size, m_isPointer |-> isPointer]

DataType_isValid(t) == t.m_size # 0

DataType_isPointer(t) == t.m_isPointer

DataType_isClass(t) == t.m_baseTypeName = S_class

DataType_isPrimitive(t) == ~DataType_isClass(t)

DataType_isInteger(t) == substr0(t.m_baseTypeName, 3) = <<"i","n","t">> \/ substr0(t.m_baseTypeName, 4) = <<"u","i","n","t">>

DataType_isReal(t) == substr0(t.m_baseTypeName, 4) = <<"r","e","a","l">>

DataType_isBool(t) == t.m_baseTypeName = S_bool

DataType_isEnum(t) == t.m_baseTypeName = S_enum

DataType_isSigned(t) == substr0(t.m_baseTypeName, 3) = <<"i","n","t">> \/ DataType_isReal(t)

\* operator== without the comparison of m_size
DataType_eq_sizeless(a, b) == a.m_baseTypeName = b.m_baseTypeName /\ a.m_customTypeName = b.m_customTypeName /\ a.m_isPointer = b.m_isPointer

\* DataType::operator==
DataType_eq(a, b) == a.m_baseTypeName = b.m_baseTypeName /\ a.m_customTypeName = b.m_customTypeName /\ a.m_size = b.m_size /\ a.m_isPointer = b.m_isPointer

\* DataType::operator!=
DataType_ne(a, b) == ~DataType_eq(a, b)

\* the characters of type names in the order of their codes
CharOrder == <<"0","1","2","3","4","5","6","7","8","9","A","B","C","D","E","F","G","H","I","J","K","L","M","N","O","P","Q","R","S","T","U","V","W","X","Y","Z","_","a","b","c","d","e","f","g","h","i","j","k","l","m","n","o","p","q","r","s","t","u","v","w","x","y","z">>

CharCode(c) == CHOOSE i \in DOMAIN CharOrder : CharOrder[i] = c

\* operator< of two String
RECURSIVE String_less(_, _)
String_less(a, b) == IF b = <<>> THEN FALSE ELSE IF a = <<>> THEN TRUE ELSE IF a[1] # b[1] THEN CharCode(a[1]) < CharCode(b[1]) ELSE String_less(Tail(a), Tail(b))

\* operator< of two bool
bool_less(a, b) == ~a /\ b

\* DataType::operator<: && binds tighter than ||, so each comparison for
\* equality guards the next comparison only
DataType_lt(a, b) ==
    \/ String_less(a.m_baseTypeName, b.m_baseTypeName)
    \/ \/ a.m_baseTypeName = b.m_baseTypeName /\ String_less(a.m_customTypeName, b.m_customTypeName)
       \/ \/ a.m_customTypeName = b.m_customTypeName /\ a.m_size < b.m_size
          \/ a.m_size = b.m_size /\ bool_less(a.m_isPointer, b.m_isPointer)

\* DataType::operator>
DataType_gt(a, b) == ~(DataType_eq(a, b) \/ DataType_lt(a, b))

----------------------------------------------------------------------------
(* Member                                                                  *)

Member0 == [m_uid |-> NO_UID, m_offset |-> 0, m_name |-> EmptyString, m_type |-> DataType0]

Member(name, uid, offset, type) == [m_uid |-> uid, m_offset |-> offset, m_name |-> name, m_type |-> type]

Member_isValid(m) == UID_isValid(m.m_uid) /\ m.m_name # EmptyString /\ DataType_isValid(m.m_type)

\* Member::operator==
Member_eq(a, b) == a.m_uid = b.m_uid /\ a.m_offset = b.m_offset /\ a.m_name = b.m_name /\ DataType_eq(a.m_type, b.m_type)

----------------------------------------------------------------------------
(* Object                                                                  *)

Object0 == [m_type |-> DataType0, m_uid |-> <<>>, m_version |-> 0, m_minVersion |-> 0, m_data |-> <<>>, m_members |-> <<>>]

Object(uidChain, type) == [m_type |-> type, m_uid |-> uidChain, m_version |-> 0, m_minVersion |-> 0, m_data |-> <<>>, m_members |-> <<>>]

Object_isValid(o) == DataType_isValid(o.m_type) /\ o.m_uid # <<>>

\* Object::uid(index)
Object_uid(o, index) == IF index < Len(o.m_uid) THEN o.m_uid[index + 1] ELSE NO_UID

\* isVersionCompatibleTo with the minimum version of the object with the lower
\* version held against the higher version
isVersionCompatibleTo_swapped(this, other) == IF this.m_version = other.m_version THEN TRUE ELSE IF this.m_version > other.m_version THEN other.m_minVersion <= this.m_version ELSE this.m_minVersion <= other.m_version

\* Object::isVersionCompatibleTo
isVersionCompatibleTo(this, other) == IF this.m_version = other.m_version THEN TRUE ELSE IF this.m_version > other.m_version THEN this.m_minVersion <= other.m_version ELSE other.m_minVersion <= this.m_version

RECURSIVE memberNamedFrom(_, _, _)
memberNamedFrom(obj, name, i) == IF i > Len(obj.m_members) THEN Member0 ELSE IF obj.m_members[i].m_name = name THEN obj.m_members[i] ELSE memberNamedFrom(obj, name, i + 1)

memberNamed(obj, name) == memberNamedFrom(obj, name, 1)

RECURSIVE membersOfTypeFrom(_, _, _)
membersOfTypeFrom(obj, type, i) == IF i > Len(obj.m_members) THEN <<>> ELSE IF DataType_eq(obj.m_members[i].m_type, type) THEN <<obj.m_members[i]>> \o membersOfTypeFrom(obj, type, i + 1) ELSE membersOfTypeFrom(obj, type, i + 1)

membersOfType(obj, type) == membersOfTypeFrom(obj, type, 1)

RECURSIVE sequenceIndexOfFrom(_, _, _)
sequenceIndexOfFrom(obj, member, i) == IF i > Len(obj.m_members) THEN -1 ELSE IF Member_eq(obj.m_members[i], member) THEN i - 1 ELSE sequenceIndexOfFrom(obj, member, i + 1)

sequenceIndexOf(obj, member) == sequenceIndexOfFrom(obj, member, 1)

----------------------------------------------------------------------------
(* ObjectPool: the map from UID to Object of an archive.                   *)

\* a lookup that yields an entry of the pool for a key that is absent
PoolGet_any(pool, uid) == IF uid \in DOMAIN pool THEN pool[uid] ELSE IF DOMAIN pool = {} THEN [m_type |-> [m_baseTypeName |-> <<>>, m_customTypeName |-> <<>>, m_size |-> 0, m_isPointer |-> FALSE], m_uid |-> <<>>, m_version |-> 0, m_minVersion |-> 0, m_data |-> <<>>, m_members |-> <<>>] ELSE pool[CHOOSE k \in DOMAIN pool : TRUE]

\* the Object that pool[uid] refers to
PoolGet(pool, uid) == IF ~UID_isValid(uid) THEN Object0 ELSE IF uid \in DOMAIN pool THEN pool[uid] ELSE Object0

\* the pool after pool[uid] was evaluated: an absent valid key gets a default Object
PoolTouch(pool, uid) == IF UID_isValid(uid) /\ uid \notin DOMAIN pool THEN (uid :> Object0) @@ pool ELSE pool

\* pool[uid] = obj
PoolPut(pool, uid, obj) == IF UID_isValid(uid) THEN (uid :> obj) @@ pool ELSE pool

\* an erase that leaves the entry in the pool
PoolErase_kept(pool, uid) == pool

\* pool.erase(uid)
PoolErase(pool, uid) == [k \in (DOMAIN pool) \ {uid} |-> pool[k]]

EmptyPool == [k \in {} |-> Object0]

----------------------------------------------------------------------------
(* Archive                                                                 *)

LIBGIG_EPOCH_TIME == 0

\* Archive::Archive()
Archive0 == [m_allObjects |-> EmptyPool, m_root |-> NO_UID, m_rawData |-> <<>>, m_isModified |-> FALSE, m_timeCreated |-> LIBGIG_EPOCH_TIME, m_timeModified |-> LIBGIG_EPOCH_TIME, m_name |-> EmptyString, m_comment |-> EmptyString]

----------------------------------------------------------------------------
(* Live memory: a function from addresses to bytes.                        *)

\* the addresses memcpy(pDst, ., size) writes
Range(pDst, size) == pDst .. (pDst + size - 1)

\* memcpy(pDst, &data[0], size)
memcpy(m, pDst, data, size) == [a \in DOMAIN m |-> IF a \in Range(pDst, size) THEN data[a - pDst + 1] ELSE m[a]]

----------------------------------------------------------------------------
(* Fixed-width integers as byte sequences, least significant byte first.   *)

DigitChars == <<"0","1","2","3","4","5","6","7","8","9">>

IsDigit(c) == c \in {"0","1","2","3","4","5","6","7","8","9"}

\* c - '0'
DigitValue(c) == (CHOOSE i \in 1..10 : DigitChars[i] = c) - 1

ZeroBytes(w) == [i \in 1..w |-> 0]

IsZeroBytes(bytes) == \A i \in 1..Len(bytes) : bytes[i] = 0

\* bytes * k + carry, truncated to the width of bytes
RECURSIVE MulAddFrom(_, _, _, _)
MulAddFrom(bytes, k, carry, i) == IF i > Len(bytes) THEN <<>> ELSE <<(bytes[i] * k + carry) % 256>> \o MulAddFrom(bytes, k, (bytes[i] * k + carry) \div 256, i + 1)

MulAdd(bytes, k, add) == MulAddFrom(bytes, k, add, 1)

\* -bytes in two's complement, truncated to the width of bytes
Negate(bytes) == MulAdd([i \in 1..Len(bytes) |-> 255 - bytes[i]], 1, 1)

\* quotient and remainder of bytes / 10, from the most significant byte down
RECURSIVE DivMod10From(_, _, _)
DivMod10From(bytes, i, rem) == IF i = 0 THEN [q |-> <<>>, r |-> rem] ELSE LET rest == DivMod10From(bytes, i - 1, (rem * 256 + bytes[i]) % 10) IN [q |-> Append(rest.q, (rem * 256 + bytes[i]) \div 10), r |-> rest.r]

DivMod10(bytes) == DivMod10From(bytes, Len(bytes), 0)

\* the number an unsigned byte sequence stands for
RECURSIVE UnsignedFrom(_, _)
UnsignedFrom(bytes, i) == IF i > Len(bytes) THEN 0 ELSE bytes[i] + 256 * UnsignedFrom(bytes, i + 1)

Unsigned(bytes) == UnsignedFrom(bytes, 1)

IsNegative(bytes) == Len(bytes) > 0 /\ bytes[Len(bytes)] >= 128

\* the number a two's complement byte sequence stands for
Signed(bytes) == IF IsNegative(bytes) THEN 0 - Unsigned(Negate(bytes)) ELSE Unsigned(bytes)

\* the w bytes of the number n (n >= 0 or two's complement of -n)
RECURSIVE NatBytes(_, _)
NatBytes(n, w) == IF w = 0 THEN <<>> ELSE <<n % 256>> \o NatBytes(n \div 256, w - 1)

IntBytes(n, w) == IF n < 0 THEN Negate(NatBytes(0 - n, w)) ELSE NatBytes(n, w)

----------------------------------------------------------------------------
(* ToString (helper.h): operator<< of a stringstream.                      *)

RECURSIVE NatToString(_)
NatToString(n) == IF n < 10 THEN <<DigitChars[n + 1]>> ELSE NatToString(n \div 10) \o <<DigitChars[(n % 10) + 1]>>

\* ToString of a small number: a length, a size, a version, a time
ToString_int(n) == IF n < 0 THEN <<"-">> \o NatToString(0 - n) ELSE NatToString(n)

RECURSIVE DecimalOf(_)
DecimalOf(bytes) == IF IsZeroBytes(bytes) THEN <<>> ELSE LET d == DivMod10(bytes) IN DecimalOf(d.q) \o <<DigitChars[d.r + 1]>>

\* ToString of an unsigned integer of Len(bytes) bytes
ToStringUnsigned(bytes) == IF IsZeroBytes(bytes) THEN <<"0">> ELSE DecimalOf(bytes)

\* ToString of a signed integer of Len(bytes) bytes
ToStringSigned(bytes) == IF IsNegative(bytes) THEN <<"-">> \o ToStringUnsigned(Negate(bytes)) ELSE ToStringUnsigned(bytes)

\* ToString(size_t(uid.id)): the all-ones pointer prints as 2^64 - 1
ToStringID(id) == IF id = -1 THEN ToStringUnsigned([i \in 1..8 |-> 255]) ELSE NatToString(id)

----------------------------------------------------------------------------
(* Encoder                                                                 *)

\* the bytes at ptr in _primitiveObjectValueToString: the object's own m_data,
\* or, when that is empty, the live memory m at the object's handle
ValueBytes(obj, m) == IF obj.m_data = <<>> THEN [i \in 1..obj.m_type.m_size |-> m[Object_uid(obj, 0).id + i - 1]] ELSE obj.m_data

\* _primitiveObjectValueToString runs into assert(false) or reads outside of
\* the live memory m
_primitiveObjectValueFails(obj, m) ==
    LET type == obj.m_type
    IN /\ DataType_isPrimitive(type) /\ ~DataType_isPointer(type)
       /\ \/ obj.m_data # <<>> /\ type.m_size # Len(obj.m_data)
          \/ obj.m_data = <<>> /\ ~(Range(Object_uid(obj, 0).id, type.m_size) \subseteq DOMAIN m)
          \/ (DataType_isInteger(type) \/ DataType_isEnum(type)) /\ type.m_size \notin {1, 2, 4, 8}
          \/ ~(DataType_isInteger(type) \/ DataType_isEnum(type) \/ DataType_isReal(type) \/ DataType_isBool(type))

\* the rendering of floating point values is outside of this model: no input
\* holds an object of a real type
_primitiveObjectValueToString(obj, m) ==
    LET type == obj.m_type
        bytes == ValueBytes(obj, m)
    IN IF DataType_isPrimitive(type) /\ ~DataType_isPointer(type)
       THEN IF DataType_isInteger(type) \/ DataType_isEnum(type)
            THEN (IF DataType_isSigned(type) THEN ToStringSigned(bytes) ELSE ToStringUnsigned(bytes))
            ELSE IF DataType_isReal(type) THEN <<"r","e","a","l">>
            ELSE IF DataType_isBool(type) THEN (IF bytes[1] = 0 THEN <<"0">> ELSE <<"1">>)
            ELSE EmptyString
       ELSE EmptyString

_encodeBlob(data) == NatToString(Len(data)) \o <<":">> \o data

_encode_UID(uid) == _encodeBlob(_encodeBlob(ToStringID(uid.id)) \o _encodeBlob(ToString_int(uid.size)))

_encode_time(time) == _encodeBlob(ToString_int(time))

_encode_DataType(type) == _encodeBlob(_encodeBlob(type.m_baseTypeName) \o _encodeBlob(type.m_customTypeName) \o _encodeBlob(ToString_int(type.m_size)) \o _encodeBlob(IF type.m_isPointer THEN <<"1">> ELSE <<"0">>))

RECURSIVE _encode_UIDs(_, _)
_encode_UIDs(chain, i) == IF i > Len(chain) THEN EmptyString ELSE _encode_UID(chain[i]) \o _encode_UIDs(chain, i + 1)

_encode_UIDChain(chain) == _encodeBlob(_encode_UIDs(chain, 1))

_encode_Member(member) == _encodeBlob(_encode_UID(member.m_uid) \o _encodeBlob(ToString_int(member.m_offset)) \o _encodeBlob(member.m_name) \o _encode_DataType(member.m_type))

RECURSIVE _encode_MembersFrom(_, _)
_encode_MembersFrom(members, i) == IF i > Len(members) THEN EmptyString ELSE _encode_Member(members[i]) \o _encode_MembersFrom(members, i + 1)

_encode_Members(members) == _encodeBlob(_encode_MembersFrom(members, 1))

_encodePrimitiveValue(obj, m) == _encodeBlob(_primitiveObjectValueToString(obj, m))

_encode_Object(obj, m) == _encodeBlob(_encode_DataType(obj.m_type) \o _encodeBlob(ToString_int(obj.m_version)) \o _encodeBlob(ToString_int(obj.m_minVersion)) \o _encode_UIDChain(obj.m_uid) \o _encode_Members(obj.m_members) \o _encodePrimitiveValue(obj, m))

\* UID::operator< : the order in which a pool is iterated
UID_less(a, b) == a.id < b.id \/ (a.id = b.id /\ a.size < b.size)

\* the keys of a pool in the order of iteration
RECURSIVE KeysInOrder(_)
KeysInOrder(keys) == IF keys = {} THEN <<>> ELSE LET first == CHOOSE k \in keys : \A o \in keys \ {k} : UID_less(k, o) IN <<first>> \o KeysInOrder(keys \ {first})

RECURSIVE _encode_Objects(_, _, _, _)
_encode_Objects(objects, order, i, m) == IF i > Len(order) THEN EmptyString ELSE _encode_Object(objects[order[i]], m) \o _encode_Objects(objects, order, i + 1, m)

_encode_ObjectPool(objects, m) == _encodeBlob(_encode_Objects(objects, KeysInOrder(DOMAIN objects), 1, m))

ENCODING_FORMAT_MINOR_VERSION == 0

\* Archive::_encodeRootBlob
_encodeRootBlob(a, m) == _encodeBlob(_encodeBlob(ToString_int(ENCODING_FORMAT_MINOR_VERSION)) \o _encode_UID(a.m_root) \o _encode_ObjectPool(a.m_allObjects, m) \o _encodeBlob(a.m_name) \o _encodeBlob(a.m_comment) \o _encode_time(a.m_timeCreated) \o _encode_time(a.m_timeModified))

\* the terminating zero of the String that encode copies into m_rawData
NUL == "NUL"

\* Archive::encode that sets m_timeCreated whatever it holds
Archive_encode_restamped(a, m, now) ==
    LET stamped == [a EXCEPT !.m_timeModified = now, !.m_timeCreated = now]
    IN [stamped EXCEPT !.m_rawData = MAGIC_START \o _encodeRootBlob(stamped, m) \o <<NUL>>, !.m_isModified = FALSE]

\* Archive::encode, time(NULL) returning now, on the live memory m
Archive_encode(a, m, now) ==
    LET stamped == [a EXCEPT !.m_timeModified = now, !.m_timeCreated = IF a.m_timeCreated = LIBGIG_EPOCH_TIME THEN now ELSE @]
    IN [stamped EXCEPT !.m_rawData = MAGIC_START \o _encodeRootBlob(stamped, m) \o <<NUL>>, !.m_isModified = FALSE]

\* Archive::encode runs into a failed assert or an invalid read
Archive_encodeFails(a, m) == \E k \in DOMAIN a.m_allObjects : _primitiveObjectValueFails(a.m_allObjects[k], m)

----------------------------------------------------------------------------
(* Decoder.  The stream is the sequence d; a position (const char* p or   *)
(* end) is an index into d, Len(d) + 1 being the position behind its last  *)
(* byte.  A _pop operator yields [err, p, v]: the message of the Exception *)
(* it throws ("" if none), the position it leaves the caller's p at and    *)
(* the value it returns.  The calls of one _pop function by another go     *)
(* through _pop, and a run of calls in a row through _popSeq.  A function  *)
(* is split where it holds a local: X_blob is X from its _decodeBlob on,   *)
(* X_fields is X once the calls in a row have returned.                    *)

Ok(p, v) == [err |-> "", p |-> p, v |-> v]

Fail(msg) == [err |-> msg, p |-> 0, v |-> <<>>]

\* the call of the _pop function that kind names
RECURSIVE _pop(_, _, _, _)

\* the calls of the _pop functions that kinds names, one after the other on
\* the same p and end: v holds what the calls before the first throw returned
RECURSIVE _popSeq(_, _, _, _, _)

\* _popSeq once the first call returned r
RECURSIVE _popSeq_next(_, _, _, _, _)
_popSeq_next(kinds, d, end, vs, r) == IF r.err # "" THEN [err |-> r.err, p |-> 0, v |-> vs] ELSE _popSeq(Tail(kinds), d, r.p, end, Append(vs, r.v))

_popSeq(kinds, d, p, end, vs) == IF kinds = <<>> THEN Ok(p, vs) ELSE _popSeq_next(kinds, d, end, vs, _pop(Head(kinds), d, p, end))

\* the loop of _decodeBlob over the digits of the size: [err, p, v] with p at
\* the ':' and v the size
RECURSIVE _decodeBlobSize(_, _, _, _)
_decodeBlobSize(d, p, end, sz) ==
    IF p >= end THEN Fail("Decode Error: Missing blob")
    ELSE IF d[p] = ":" THEN Ok(p, sz)
    ELSE IF ~IsDigit(d[p]) THEN Fail("Decode Error: Missing blob size")
    ELSE _decodeBlobSize(d, p + 1, end, sz * 10 + DigitValue(d[p]))

\* _decodeBlob behind its loop
_decodeBlob_size(size, end) ==
    IF size.err # "" THEN [err |-> size.err, p |-> 0, end |-> 0]
    ELSE IF size.p + 1 + size.v > end THEN [err |-> "Decode Error: Premature end of blob", p |-> 0, end |-> 0]
    ELSE [err |-> "", p |-> size.p + 1, end |-> size.p + 1 + size.v]

\* _decodeBlob: [err, p, end] with the _Blob {p, end} it returns
_decodeBlob(d, p, end, bThrow) == IF ~bThrow /\ p >= end THEN [err |-> "", p |-> p, end |-> end] ELSE _decodeBlob_size(_decodeBlobSize(d, p, end, 0), end)

\* the integer types T_int of _popIntBlob<T_int>
T_int8 == [size |-> 1, signed |-> TRUE, isBool |-> FALSE]
T_int16 == [size |-> 2, signed |-> TRUE, isBool |-> FALSE]
T_int32 == [size |-> 4, signed |-> TRUE, isBool |-> FALSE]
T_int64 == [size |-> 8, signed |-> TRUE, isBool |-> FALSE]
T_uint8 == [size |-> 1, signed |-> FALSE, isBool |-> FALSE]
T_uint16 == [size |-> 2, signed |-> FALSE, isBool |-> FALSE]
T_uint32 == [size |-> 4, signed |-> FALSE, isBool |-> FALSE]
T_uint64 == [size |-> 8, signed |-> FALSE, isBool |-> FALSE]
T_bool == [size |-> 1, signed |-> FALSE, isBool |-> TRUE]

\* what _pop and _popSeq take to name a call
K_int(T) == [k |-> "int", T |-> T]
K_string == [k |-> "string"]
K_time == [k |-> "time"]
K_DataType == [k |-> "DataType"]
K_UID == [k |-> "UID"]
K_UIDChain == [k |-> "UIDChain"]
K_Member == [k |-> "Member"]
K_Members == [k |-> "Members"]
K_PrimitiveValue(obj) == [k |-> "PrimitiveValue", obj |-> obj]
K_Object == [k |-> "Object"]
K_Objects(objects) == [k |-> "Objects", objects |-> objects]

\* i *= 10; i += size_t(c - '0'); in the arithmetic of T_int
_popIntStep(i, c, T) == IF T.isBool THEN (IF i[1] * 10 + DigitValue(c) # 0 THEN <<1>> ELSE <<0>>) ELSE MulAdd(i, 10, DigitValue(c))

\* the loop of _popIntBlob over the digits
RECURSIVE _popIntDigits(_, _, _, _, _)
_popIntDigits(d, p, end, i, T) ==
    IF p >= end THEN Ok(p, i)
    ELSE IF ~IsDigit(d[p]) THEN Fail("Decode Error: Invalid int blob format")
    ELSE _popIntDigits(d, p + 1, end, _popIntStep(i, d[p], T), T)

\* return i * sign
_popIntBlob_sign(negative, digits, T) == IF digits.err # "" THEN digits ELSE Ok(digits.p, IF negative /\ ~T.isBool THEN Negate(digits.v) ELSE digits.v)

_popIntBlob_blob(d, blob, T) ==
    IF blob.err # "" THEN Fail(blob.err)
    ELSE IF blob.p >= blob.end THEN Fail("Decode Error: premature end of int blob")
    ELSE _popIntBlob_sign(d[blob.p] = "-", _popIntDigits(d, IF d[blob.p] = "-" THEN blob.p + 1 ELSE blob.p, blob.end, ZeroBytes(T.size), T), T)

\* _popIntBlob<T_int>(p, end): v is the T.size bytes of the value returned
_popIntBlob(d, p, end, T) == _popIntBlob_blob(d, _decodeBlob(d, p, end, TRUE), T)

_popRealBlob_blob(blob, size) ==
    IF blob.err # "" THEN Fail(blob.err)
    ELSE IF blob.p >= blob.end THEN Fail("Decode Error: premature end of real blob")
    ELSE Ok(blob.end, ZeroBytes(size))

\* _popRealBlob<T_real>(p, end): the parsing of floating point values (atof) is
\* outside of this model, no input holds an object of a real type
_popRealBlob(d, p, end, size) == _popRealBlob_blob(_decodeBlob(d, p, end, TRUE), size)

_popStringBlob_blob(d, blob) == IF blob.err # "" THEN Fail(blob.err) ELSE Ok(blob.end, SubSeq(d, blob.p, blob.end - 1))

_popStringBlob(d, p, end) == _popStringBlob_blob(d, _decodeBlob(d, p, end, TRUE))

_popTimeBlob_int(i) == IF i.err # "" THEN i ELSE Ok(i.p, Unsigned(i.v))

_popTimeBlob(d, p, end) == _popTimeBlob_int(_pop(K_int(T_uint64), d, p, end))

_popDataTypeBlob_fields(f) == IF f.err # "" THEN Fail(f.err) ELSE Ok(f.p, DataType(f.v[4][1] # 0, Signed(f.v[3]), f.v[1], f.v[2]))

_popDataTypeBlob_blob(d, blob) == IF blob.err # "" THEN Fail(blob.err) ELSE _popDataTypeBlob_fields(_popSeq(<<K_string, K_string, K_int(T_int32), K_int(T_bool)>>, d, blob.p, blob.end, <<>>))

_popDataTypeBlob(d, p, end) == _popDataTypeBlob_blob(d, _decodeBlob(d, p, end, TRUE))

\* (ID) of a size_t: the pointer it denotes, (void*)-1 for the all-ones value
IDOf(bytes) == IF \A i \in 1..Len(bytes) : bytes[i] = 255 THEN -1 ELSE Unsigned(bytes)

_popUIDBlob_fields(f) == IF f.err # "" THEN Fail(f.err) ELSE Ok(f.p, UID(IDOf(f.v[1]), Unsigned(f.v[2])))

_popUIDBlob_blob(d, blob) ==
    IF blob.err # "" THEN Fail(blob.err)
    ELSE IF blob.p >= blob.end THEN Fail("Decode Error: premature end of UID blob")
    ELSE _popUIDBlob_fields(_popSeq(<<K_int(T_uint64), K_int(T_uint64)>>, d, blob.p, blob.end, <<>>))

_popUIDBlob(d, p, end) == _popUIDBlob_blob(d, _decodeBlob(d, p, end, TRUE))

\* the loop of _popUIDChainBlob
RECURSIVE _popUIDs(_, _, _, _)

\* the loop once _popUIDBlob returned uid
RECURSIVE _popUIDs_next(_, _, _, _)
_popUIDs_next(d, end, chain, uid) == IF uid.err # "" THEN uid ELSE _popUIDs(d, uid.p, end, Append(chain, uid.v))

_popUIDs(d, p, end, chain) == IF p < end THEN _popUIDs_next(d, end, chain, _pop(K_UID, d, p, end)) ELSE Ok(p, chain)

_popUIDChainBlob_chain(chain) ==
    IF chain.err # "" THEN chain
    ELSE IF chain.v = <<>> THEN Fail("Assertion failed: !chain.empty()")
    ELSE chain

_popUIDChainBlob_blob(d, blob) == IF blob.err # "" THEN Fail(blob.err) ELSE _popUIDChainBlob_chain(_popUIDs(d, blob.p, blob.end, <<>>))

_popUIDChainBlob(d, p, end) == _popUIDChainBlob_blob(d, _decodeBlob(d, p, end, TRUE))

_popMemberBlob_fields(f) ==
    IF f.err # "" THEN Fail(f.err)
    ELSE IF ~DataType_isValid(f.v[4]) THEN Fail("Assertion failed: m.type()")
    ELSE IF f.v[3] = EmptyString THEN Fail("Assertion failed: !m.name().empty()")
    ELSE IF ~UID_isValid(f.v[1]) THEN Fail("Assertion failed: m.uid().isValid()")
    ELSE Ok(f.p, Member(f.v[3], f.v[1], Unsigned(f.v[2]), f.v[4]))

_popMemberBlob_blob(d, blob) ==
    IF blob.err # "" THEN Fail(blob.err)
    ELSE IF blob.p >= blob.end THEN Ok(blob.p, Member0)
    ELSE _popMemberBlob_fields(_popSeq(<<K_UID, K_int(T_uint64), K_string, K_DataType>>, d, blob.p, blob.end, <<>>))

_popMemberBlob(d, p, end) == _popMemberBlob_blob(d, _decodeBlob(d, p, end, FALSE))

\* the loop of _popMembersBlob
RECURSIVE _popMembers(_, _, _, _)

\* the loop once _popMemberBlob returned member
RECURSIVE _popMembers_next(_, _, _, _)
_popMembers_next(d, end, members, member) ==
    IF member.err # "" THEN member
    ELSE IF Member_isValid(member.v) THEN _popMembers(d, member.p, end, Append(members, member.v))
    ELSE Ok(member.p, members)

_popMembers(d, p, end, members) == IF p < end THEN _popMembers_next(d, end, members, _pop(K_Member, d, p, end)) ELSE Ok(p, members)

\* _popMembersBlob with the members put in front of those read before
_popMembersBlob_reversed(d, blob) == IF blob.err # "" THEN Fail(blob.err) ELSE LET members == _popMembers(d, blob.p, blob.end, <<>>) IN [members EXCEPT !.v = [i \in 1..Len(@) |-> @[Len(@) + 1 - i]]]

_popMembersBlob_blob(d, blob) == IF blob.err # "" THEN Fail(blob.err) ELSE _popMembers(d, blob.p, blob.end, <<>>)

_popMembersBlob(d, p, end) == _popMembersBlob_blob(d, _decodeBlob(d, p, end, FALSE))

\* the m_data that _popIntBlob<T_int>(p, end, obj.m_data) leaves: obj.m_data was
\* resized to size zero bytes and the value is stored at its start
StoreAt0(size, bytes) == [i \in 1..size |-> IF i <= Len(bytes) THEN bytes[i] ELSE 0]

\* the integer type that _popPrimitiveValue hands to _popIntBlob
T_of(type) == IF DataType_isBool(type) THEN T_uint8 ELSE [size |-> type.m_size, signed |-> DataType_isSigned(type), isBool |-> FALSE]

\* the value is stored without obj.m_data.resize(type.size()): one byte
_popPrimitiveValue_unsized(obj, value) == IF value.err # "" THEN value ELSE Ok(value.p, [obj EXCEPT !.m_data = SubSeq(value.v, 1, 1)])

\* _popPrimitiveValue once the value was read
_popPrimitiveValue_value(obj, value) == IF value.err # "" THEN value ELSE Ok(value.p, [obj EXCEPT !.m_data = StoreAt0(obj.m_type.m_size, value.v)])

\* _popPrimitiveValue of an object that holds no primitive value
_popPrimitiveValue_blob(obj, blob) == IF blob.err # "" THEN Fail(blob.err) ELSE Ok(blob.p, obj)

\* _popPrimitiveValue(p, end, obj): v is the obj it leaves
_popPrimitiveValue(d, p, end, obj) ==
    IF DataType_isPrimitive(obj.m_type) /\ ~DataType_isPointer(obj.m_type)
    THEN IF DataType_isInteger(obj.m_type) \/ DataType_isEnum(obj.m_type)
         THEN IF obj.m_type.m_size \notin {1, 2, 4, 8} THEN Fail("Assertion failed: unknown int type size")
              ELSE _popPrimitiveValue_value(obj, _pop(K_int(T_of(obj.m_type)), d, p, end))
         ELSE IF DataType_isReal(obj.m_type)
         THEN IF obj.m_type.m_size \notin {4, 8} THEN Fail("Assertion failed: unknown floating point type")
              ELSE _popPrimitiveValue_value(obj, _popRealBlob(d, p, end, obj.m_type.m_size))
         ELSE IF DataType_isBool(obj.m_type)
         THEN IF obj.m_type.m_size < 1 THEN Fail("Segmentation fault")
              ELSE _popPrimitiveValue_value(obj, _pop(K_int(T_of(obj.m_type)), d, p, end))
         ELSE Fail("Assertion failed: unknown primitive type")
    ELSE _popPrimitiveValue_blob(obj, _decodeBlob(d, p, end, FALSE))

_popObjectBlob_value(obj) ==
    IF obj.err # "" THEN obj
    ELSE IF ~DataType_isValid(obj.v.m_type) THEN Fail("Assertion failed: obj.type()")
    ELSE obj

_popObjectBlob_fields(d, blob, f) ==
    IF f.err # "" THEN Fail(f.err)
    ELSE _popObjectBlob_value(_pop(K_PrimitiveValue([m_type |-> f.v[1], m_uid |-> f.v[4], m_version |-> Unsigned(f.v[2]), m_minVersion |-> Unsigned(f.v[3]), m_data |-> <<>>, m_members |-> f.v[5]]), d, f.p, blob.end))

_popObjectBlob_blob(d, blob) ==
    IF blob.err # "" THEN Fail(blob.err)
    ELSE IF blob.p >= blob.end THEN Ok(blob.p, Object0)
    ELSE _popObjectBlob_fields(d, blob, _popSeq(<<K_DataType, K_int(T_uint32), K_int(T_uint32), K_UIDChain, K_Members>>, d, blob.p, blob.end, <<>>))

_popObjectBlob(d, p, end) == _popObjectBlob_blob(d, _decodeBlob(d, p, end, FALSE))

\* the loop of Archive::_popObjectsBlob: v is m_allObjects as the loop leaves
\* it, also when it is left by an Exception
RECURSIVE _popObjects(_, _, _, _)

\* the loop once _popObjectBlob returned obj
RECURSIVE _popObjects_next(_, _, _, _)
\* the loop of _popObjectsBlob that keeps the first object only
_popObjects_first(d, end, objects, obj) ==
    IF obj.err # "" THEN [err |-> obj.err, p |-> 0, v |-> objects]
    ELSE IF ~Object_isValid(obj.v) THEN Ok(obj.p, objects)
    ELSE _popObjects(d, obj.p, end, IF objects = EmptyPool THEN PoolPut(objects, Object_uid(obj.v, 0), obj.v) ELSE objects)

_popObjects_next(d, end, objects, obj) ==
    IF obj.err # "" THEN [err |-> obj.err, p |-> 0, v |-> objects]
    ELSE IF ~Object_isValid(obj.v) THEN Ok(obj.p, objects)
    ELSE _popObjects(d, obj.p, end, PoolPut(objects, Object_uid(obj.v, 0), obj.v))

_popObjects(d, p, end, objects) == _popObjects_next(d, end, objects, _pop(K_Object, d, p, end))

_popObjectsBlob_blob(d, blob, objects) ==
    IF blob.err # "" THEN [err |-> blob.err, p |-> 0, v |-> objects]
    ELSE IF blob.p >= blob.end THEN [err |-> "Decode Error: Premature end of objects blob", p |-> 0, v |-> objects]
    ELSE _popObjects(d, blob.p, blob.end, objects)

\* Archive::_popObjectsBlob on the pool objects
_popObjectsBlob(d, p, end, objects) == _popObjectsBlob_blob(d, _decodeBlob(d, p, end, FALSE), objects)

_pop(kind, d, p, end) ==
    CASE kind.k = "int" -> _popIntBlob(d, p, end, kind.T)
      [] kind.k = "string" -> _popStringBlob(d, p, end)
      [] kind.k = "time" -> _popTimeBlob(d, p, end)
      [] kind.k = "DataType" -> _popDataTypeBlob(d, p, end)
      [] kind.k = "UID" -> _popUIDBlob(d, p, end)
      [] kind.k = "UIDChain" -> _popUIDChainBlob(d, p, end)
      [] kind.k = "Member" -> _popMemberBlob(d, p, end)
      [] kind.k = "Members" -> _popMembersBlob(d, p, end)
      [] kind.k = "PrimitiveValue" -> _popPrimitiveValue(d, p, end, kind.obj)
      [] kind.k = "Object" -> _popObjectBlob(d, p, end)
      [] kind.k = "Objects" -> _popObjectsBlob(d, p, end, kind.objects)

\* the archive a after the first n of m_name, m_comment, m_timeCreated and
\* m_timeModified were assigned from vs
Assigned(a, vs, n) == [a EXCEPT !.m_name = IF n >= 1 THEN vs[1] ELSE @, !.m_comment = IF n >= 2 THEN vs[2] ELSE @, !.m_timeCreated = IF n >= 3 THEN vs[3] ELSE @, !.m_timeModified = IF n >= 4 THEN vs[4] ELSE @]

\* Archive::_popRootBlob behind the pool: m_name to m_timeModified
_popRootBlob_tail(a, g) == [err |-> g.err, a |-> Assigned(a, g.v, Len(g.v))]

\* Archive::_popRootBlob once _popObjectsBlob returned
_popRootBlob_objects(d, blob, a, objects) ==
    IF objects.err # "" THEN [err |-> objects.err, a |-> [a EXCEPT !.m_allObjects = objects.v]]
    ELSE IF ~Object_isValid(PoolGet(objects.v, a.m_root)) THEN [err |-> "Decode Error: Missing declared root object", a |-> [a EXCEPT !.m_allObjects = PoolTouch(objects.v, a.m_root)]]
    ELSE _popRootBlob_tail([a EXCEPT !.m_allObjects = PoolTouch(objects.v, a.m_root)], _popSeq(<<K_string, K_string, K_time, K_time>>, d, objects.p, blob.end, <<>>))

\* Archive::_popRootBlob once the format version and m_root were read
_popRootBlob_fields(d, blob, a, f) ==
    IF f.err # "" THEN [err |-> f.err, a |-> a]
    ELSE IF ~UID_isValid(f.v[2]) THEN [err |-> "Decode Error: No root object", a |-> [a EXCEPT !.m_root = f.v[2]]]
    ELSE _popRootBlob_objects(d, blob, [a EXCEPT !.m_root = f.v[2]], _pop(K_Objects(a.m_allObjects), d, f.p, blob.end))

_popRootBlob_blob(d, blob, a) ==
    IF blob.err # "" THEN [err |-> blob.err, a |-> a]
    ELSE IF blob.p >= blob.end THEN [err |-> "Decode Error: Premature end of root blob", a |-> a]
    ELSE _popRootBlob_fields(d, blob, a, _popSeq(<<K_int(T_int32), K_UID>>, d, blob.p, blob.end, <<>>))

\* Archive::_popRootBlob on the archive a: [err, a] with the archive it leaves
_popRootBlob(d, p, end, a) == _popRootBlob_blob(d, _decodeBlob(d, p, end, FALSE), a)

\* std::min(strlen(MAGIC_START), data.size())
MagicCompareLength(data) == IF Len(MAGIC_START) < Len(data) THEN Len(MAGIC_START) ELSE Len(data)

\* Archive::decode(const RawData& data) once the archive was reset
Archive_decode_reset(a, data) ==
    IF SubSeq(data, 1, MagicCompareLength(data)) # SubSeq(MAGIC_START, 1, MagicCompareLength(data))
    THEN [err |-> "Decode Error: Magic start missing!", a |-> a]
    ELSE _popRootBlob(data, 1 + Len(MAGIC_START), Len(data) + 1, a)

\* Archive::decode(const RawData& data) on the archive a: [err, a]
Archive_decode(a, data) == Archive_decode_reset([a EXCEPT !.m_rawData = data, !.m_allObjects = EmptyPool, !.m_isModified = FALSE, !.m_timeCreated = LIBGIG_EPOCH_TIME, !.m_timeModified = LIBGIG_EPOCH_TIME], data)

----------------------------------------------------------------------------
(* The live graphs and their walk.  The descriptor routines of the user    *)
(* and the registration of their members are code of Serialization.h; a    *)
(* live graph is given as its class instances, and Walk is the pool that   *)
(* registering them leaves.                                                *)

int8_t == DataType(FALSE, 1, S_int8, EmptyString)
uint8_t == DataType(FALSE, 1, S_uint8, EmptyString)
int32_t == DataType(FALSE, 4, S_int32, EmptyString)
int64_t == DataType(FALSE, 8, S_int64, EmptyString)
bool_t == DataType(FALSE, 1, S_bool, EmptyString)
Color_t == DataType(FALSE, 4, S_enum, <<"C","o","l","o","r">>)

\* the type descriptor of a class with the given tag and sizeof
ClassType(tag, size) == DataType(FALSE, size, S_class, tag)

\* the type descriptor of a pointer variable to a datum of type t
PointerTo(t) == DataType(TRUE, T_uint64.size, t.m_baseTypeName, t.m_customTypeName)

\* a member variable of a class that is no pointer
Field(name, offset, type) == [name |-> name, offset |-> offset, type |-> type, target |-> NO_UID]

\* a member variable that is a pointer to the datum with the identity target
PointerField(name, offset, pointee, target) == [name |-> name, offset |-> offset, type |-> PointerTo(pointee), target |-> target]

\* an instance of a class at the address addr
Instance(addr, type, fields) == [addr |-> addr, type |-> type, version |-> 0, minVersion |-> 0, fields |-> fields]

\* the member descriptor that registering the field f of the instance i appends
MemberOf(i, f) == Member(f.name, UID(i.addr + f.offset, f.type.m_size), f.offset, f.type)

\* the object built for the field f of the instance i
FieldObject(i, f) == Object(IF f.type.m_isPointer THEN <<UID(i.addr + f.offset, f.type.m_size), f.target>> ELSE <<UID(i.addr + f.offset, f.type.m_size)>>, f.type)

\* the object of the instance i once all its members are registered
ClassObject(i) == [Object(<<UID(i.addr, i.type.m_size)>>, i.type) EXCEPT !.m_version = i.version, !.m_minVersion = i.minVersion, !.m_members = [k \in 1..Len(i.fields) |-> MemberOf(i, i.fields[k])]]

\* the pool of a walk over the instances: the entry of a parent exists before
\* the objects of its members are inserted, and an insert leaves a valid entry
Walk(instances) ==
    LET classKeys == {UID(i.addr, i.type.m_size) : i \in instances}
        fieldObjects == UNION {{FieldObject(i, i.fields[k]) : k \in 1..Len(i.fields)} : i \in instances}
        fieldKeys == {Object_uid(o, 0) : o \in fieldObjects}
    IN [u \in classKeys \cup fieldKeys |->
          IF u \in classKeys THEN ClassObject(CHOOSE i \in instances : UID(i.addr, i.type.m_size) = u)
          ELSE CHOOSE o \in fieldObjects : Object_uid(o, 0) = u]

\* Archive::remove(obj) on the pool
Archive_remove(pool, obj) == IF ~UID_isValid(Object_uid(obj, 0)) THEN pool ELSE PoolErase(pool, Object_uid(obj, 0))

\* a primitive value in live memory
Store(addr, bytes) == [addr |-> addr, bytes |-> bytes]

\* live memory over the addresses addrs that holds the stores and zero elsewhere
Memory(addrs, stores) == [a \in addrs |-> IF \E s \in stores : a \in Range(s.addr, Len(s.bytes)) THEN LET s == CHOOSE t \in stores : a \in Range(t.addr, Len(t.bytes)) IN s.bytes[a - s.addr + 1] ELSE 0]

----------------------------------------------------------------------------
(* Archive::Syncer                                                         *)

\* the members loop of dstMemberMatching that looks for an equal offset:
\* the index (from 1) of the member it returns, 0 if it returns none
RECURSIVE memberAtOffset(_, _, _)
memberAtOffset(members, offset, i) == IF i > Len(members) THEN 0 ELSE IF members[i].m_offset = offset THEN i ELSE memberAtOffset(members, offset, i + 1)

\* the members loop of dstMemberMatching that looks for an equal sequence index
RECURSIVE memberAtSeqNr(_, _, _, _)
memberAtSeqNr(dstObj, members, srcSeqNr, i) == IF i > Len(members) THEN Member0 ELSE IF sequenceIndexOf(dstObj, members[i]) = srcSeqNr THEN members[i] ELSE memberAtSeqNr(dstObj, members, srcSeqNr, i + 1)

\* dstMemberMatching that goes on to look for a member of equal type when the
\* member of equal name has another type
dstMemberMatching_fallback(dstObj, srcObj, srcMember) ==
    LET dstMember == memberNamed(dstObj, srcMember.m_name)
        members == membersOfType(dstObj, srcMember.m_type)
        byOffset == memberAtOffset(members, srcMember.m_offset, 1)
        srcSeqNr == sequenceIndexOf(srcObj, srcMember)
    IN IF Member_isValid(dstMember) /\ DataType_eq(dstMember.m_type, srcMember.m_type) THEN dstMember
       ELSE IF Len(members) <= 0 THEN Member0
       ELSE IF Len(members) = 1 THEN members[1]
       ELSE IF byOffset # 0 THEN members[byOffset]
       ELSE memberAtSeqNr(dstObj, members, srcSeqNr, 1)

dstMemberMatching(dstObj, srcObj, srcMember) ==
    LET dstMember == memberNamed(dstObj, srcMember.m_name)
        members == membersOfType(dstObj, srcMember.m_type)
        byOffset == memberAtOffset(members, srcMember.m_offset, 1)
        srcSeqNr == sequenceIndexOf(srcObj, srcMember)
    IN IF Member_isValid(dstMember)
       THEN (IF DataType_eq(dstMember.m_type, srcMember.m_type) THEN dstMember ELSE Member0)
       ELSE IF Len(members) <= 0 THEN Member0
       ELSE IF Len(members) = 1 THEN members[1]
       ELSE IF byOffset # 0 THEN members[byOffset]
       ELSE memberAtSeqNr(dstObj, members, srcSeqNr, 1)

\* an address of the receiver's heap that holds no live object of the graph
HeapAddr == 160

\* what the first two words of a freed heap block can hold once the allocator
\* has linked the block into a free list: a null or a heap link, and a key
FreedChunkLinks == {UID(0, 0), UID(HeapAddr, 1)}

\* syncPointer hands syncObject a reference into m_dst.m_allObjects, and
\* syncObject erases that entry before it reads dstObj again: every later read
\* of dstObj is a read of freed memory.  The Object itself lies in the freed
\* map node; its m_uid and m_members vectors lie in freed heap blocks of their
\* own, whose first words (m_uid[0], m_members[0].m_uid) the allocator may
\* have overwritten.  StaleReads is the set of Objects such reads can yield.
StaleReads(dstObj) ==
    IF DataType_isPrimitive(dstObj.m_type) /\ ~DataType_isPointer(dstObj.m_type)
    THEN {dstObj} \cup {[dstObj EXCEPT !.m_uid[1] = g] : g \in FreedChunkLinks}
    ELSE IF ~DataType_isPointer(dstObj.m_type) /\ Len(dstObj.m_members) > 0
    THEN {dstObj} \cup {[dstObj EXCEPT !.m_members[1].m_uid = g] : g \in FreedChunkLinks}
    ELSE {dstObj}

\* one open invocation of syncObject(dstObj, srcObj)
Frame(dstObj, srcObj, inPool) == [dstObj |-> dstObj, srcObj |-> srcObj, inPool |-> inPool, pc |-> "enter", iMember |-> 0]

\* a throw of Exception(msg) out of the running operation
Throw(msg) == phase' = "error" /\ err' = msg

\* the process is killed (failed assert, invalid memory access)
Crash(msg) == phase' = "crashed" /\ err' = msg

\* return from the syncObject invocation on top of the stack
Return(rest) == stack' = rest /\ phase' = (IF rest = <<>> THEN "done" ELSE "syncing") /\ err' = err

\* Archive::Syncer::Syncer(dst, src)
Syncer ==
    /\ phase = "decoded"
    /\ LET srcRootObj == PoolGet(src.m_allObjects, src.m_root)
           dstRootObj == PoolGet(dst.m_allObjects, dst.m_root)
       IN /\ src' = [src EXCEPT !.m_allObjects = PoolTouch(@, src.m_root)]
          /\ dst' = [dst EXCEPT !.m_allObjects = PoolTouch(@, dst.m_root)]
          /\ src0' = src.m_allObjects
          /\ dst0' = dst.m_allObjects
          /\ IF ~Object_isValid(srcRootObj)
             THEN Throw("No source root object!") /\ stack' = stack
             ELSE IF ~Object_isValid(dstRootObj)
             THEN Throw("Expected destination root object not found!") /\ stack' = stack
             ELSE stack' = <<Frame(dstRootObj, srcRootObj, FALSE)>> /\ phase' = "syncing" /\ err' = err
    /\ UNCHANGED <<snd, smem, mem, calls, pairs, writes, matches, sc, clock, arg, res>>

\* Archive::Syncer::syncPrimitive(dstObj, srcObj), dstObj as it is read after the erase
syncPrimitive(dstObj, srcObj, checked, rest) ==
    LET pDst == Object_uid(dstObj, 0).id
        size == dstObj.m_type.m_size
    IN /\ writes' = Append(writes, [addr |-> pDst, size |-> size, dstObj |-> checked, srcObj |-> srcObj])
       /\ IF Len(srcObj.m_data) # size
          THEN Crash("Assertion failed: srcObj.rawData().size() == dstObj.type().size()") /\ mem' = mem /\ stack' = stack
          ELSE IF ~(Range(pDst, size) \subseteq DOMAIN mem)
          THEN Crash("Segmentation fault") /\ mem' = mem /\ stack' = stack
          ELSE mem' = memcpy(mem, pDst, srcObj.m_data, size) /\ Return(rest)
       /\ UNCHANGED src

\* Archive::Syncer::syncPointer(dstObj, srcObj) on the destination pool
\* dstObjects; the syncObject it calls replaces the caller on the stack, which
\* returns right after it
syncPointer(dstObj, srcObj, dstObjects, rest) ==
    LET pointedDstObject == PoolGet(dstObjects, Object_uid(dstObj, 1))
        pointedSrcObject == PoolGet(src.m_allObjects, Object_uid(srcObj, 1))
    IN /\ dst' = [dst EXCEPT !.m_allObjects = PoolTouch(dstObjects, Object_uid(dstObj, 1))]
       /\ src' = [src EXCEPT !.m_allObjects = PoolTouch(@, Object_uid(srcObj, 1))]
       /\ stack' = <<Frame(pointedDstObject, pointedSrcObject, TRUE)>> \o rest
       /\ phase' = phase /\ err' = err
       /\ UNCHANGED <<mem, writes>>

\* Archive::Syncer::syncObject(dstObj, srcObj) up to its loop over the members
syncObject ==
    /\ phase = "syncing" /\ stack # <<>> /\ Head(stack).pc = "enter"
    /\ LET f == Head(stack)
           rest == Tail(stack)
           dstObj == f.dstObj
           srcObj == f.srcObj
           erased == PoolErase(dst.m_allObjects, Object_uid(dstObj, 0))
       IN IF ~Object_isValid(dstObj) \/ ~Object_isValid(srcObj)
          THEN Return(rest) /\ UNCHANGED <<src, dst, mem, calls, pairs, writes>>
          ELSE /\ calls' = calls + 1
               /\ IF ~isVersionCompatibleTo(dstObj, srcObj)
                  THEN /\ Throw("Version incompatible")
                       /\ pairs' = pairs \cup {[dstObj |-> dstObj, srcObj |-> srcObj, outcome |-> "version"]}
                       /\ UNCHANGED <<src, dst, mem, stack, writes>>
                  ELSE IF DataType_ne(dstObj.m_type, srcObj.m_type)
                  THEN /\ Throw("Incompatible data structure type")
                       /\ pairs' = pairs \cup {[dstObj |-> dstObj, srcObj |-> srcObj, outcome |-> "type"]}
                       /\ UNCHANGED <<src, dst, mem, stack, writes>>
                  ELSE /\ pairs' = pairs \cup {[dstObj |-> dstObj, srcObj |-> srcObj, outcome |-> "synced"]}
                       /\ \E read \in (IF f.inPool THEN StaleReads(dstObj) ELSE {dstObj}) :
                            IF DataType_isPrimitive(read.m_type) /\ ~DataType_isPointer(read.m_type)
                            THEN /\ dst' = [dst EXCEPT !.m_allObjects = erased]
                                 /\ syncPrimitive(read, srcObj, dstObj, rest)
                            ELSE IF DataType_isPointer(read.m_type)
                            THEN syncPointer(read, srcObj, erased, rest)
                            ELSE /\ dst' = [dst EXCEPT !.m_allObjects = erased]
                                 /\ stack' = <<[f EXCEPT !.dstObj = read, !.pc = "members"]>> \o rest
                                 /\ phase' = phase /\ err' = err
                                 /\ UNCHANGED <<src, mem, writes>>
    /\ UNCHANGED <<snd, smem, matches, src0, dst0, sc, clock, arg, res>>

\* the loop over srcObj.members() of Archive::Syncer::syncObject: one iteration
\* with its call of dstMemberMatching and Archive::Syncer::syncMember, or the
\* return once the loop is through
syncObjectMembers ==
    /\ phase = "syncing" /\ stack # <<>> /\ Head(stack).pc = "members"
    /\ LET f == Head(stack)
           rest == Tail(stack)
       IN IF f.iMember < Len(f.srcObj.m_members)
          THEN LET srcMember == f.srcObj.m_members[f.iMember + 1]
                   dstMember == dstMemberMatching(f.dstObj, f.srcObj, srcMember)
                   dstObj == PoolGet(dst.m_allObjects, dstMember.m_uid)
                   srcObj == PoolGet(src.m_allObjects, srcMember.m_uid)
               IN /\ matches' = matches \cup {[dstObj |-> f.dstObj, srcObj |-> f.srcObj, srcMember |-> srcMember, dstMember |-> dstMember]}
                  /\ IF ~Member_isValid(dstMember)
                     THEN Throw("Expected member missing in destination object") /\ UNCHANGED <<src, dst, stack>>
                     ELSE /\ dst' = [dst EXCEPT !.m_allObjects = PoolTouch(@, dstMember.m_uid)]
                          /\ src' = [src EXCEPT !.m_allObjects = PoolTouch(@, srcMember.m_uid)]
                          /\ stack' = <<Frame(dstObj, srcObj, FALSE), [f EXCEPT !.iMember = @ + 1]>> \o rest
                          /\ phase' = phase /\ err' = err
          ELSE Return(rest) /\ UNCHANGED <<src, dst, matches>>
    /\ UNCHANGED <<snd, smem, mem, calls, pairs, writes, src0, dst0, sc, clock, arg, res>>

----------------------------------------------------------------------------
(* The runs: a sender walks its graph and encodes it, the receiver walks   *)
(* its own graph, decodes a stream and runs the Syncer.                    *)

\* where the graph of the sender lies in its address space
SrcBase == 16

\* the receiver holds its graph Shift bytes further up than the sender
Shift == 64

\* bytes of live memory each side holds for its graph
Extent == 48

\* what time(NULL) returns in Archive::encode
Now == 7

DstBase == SrcBase + Shift

SenderAddrs == SrcBase .. (SrcBase + Extent - 1)

ReceiverAddrs == (DstBase .. (DstBase + Extent - 1)) \cup (HeapAddr .. (HeapAddr + T_uint64.size - 1))

Rec_t == ClassType(<<"R","e","c">>, 24)
Node_t == ClassType(<<"N","o","d","e">>, 16)
Leaf_t == ClassType(<<"L","e","a","f">>, 8)
Pair_t == ClassType(<<"P","a","i","r">>, 16)
Own_t == ClassType(<<"O","w","n">>, 16)
Holder_t == ClassType(<<"H","o","l","d","e","r">>, 16)

\* struct Rec { int32 a; bool b; int8 c; uint8 d; Color e; int64 f; }
RecGraph(base) == {Instance(base, Rec_t, <<Field(<<"a">>, 0, int32_t), Field(<<"b">>, 4, bool_t), Field(<<"c">>, 5, int8_t), Field(<<"d">>, 6, uint8_t), Field(<<"e">>, 8, Color_t), Field(<<"f">>, 16, int64_t)>>)}

RecValues(base, a, b, c) == {Store(base, IntBytes(a, 4)), Store(base + 4, <<b>>), Store(base + 5, IntBytes(c, 1)), Store(base + 6, <<200>>), Store(base + 8, IntBytes(2, 4)), Store(base + 16, <<0, 0, 0, 128, 1, 0, 0, 0>>)}

\* struct Node { int32 id; Node* next; }: n nodes in a cycle
NodeAt(base, k, n) == Instance(base + 16 * (k - 1), Node_t, <<Field(<<"i","d">>, 0, int32_t), PointerField(<<"n","e","x","t">>, 8, Node_t, UID(base + 16 * (k % n), 16))>>)

NodeGraph(base, n) == {NodeAt(base, k, n) : k \in 1..n}

NodeValues(base, n) == {Store(base + 16 * (k - 1), IntBytes(k, 4)) : k \in 1..n}

\* struct Leaf { int32 v; int8 w; }
LeafAt(addr) == Instance(addr, Leaf_t, <<Field(<<"v">>, 0, int32_t), Field(<<"w">>, 4, int8_t)>>)

LeafValues(addr) == {Store(addr, IntBytes(9, 4)), Store(addr + 4, IntBytes(-3, 1))}

\* struct Pair { Leaf* p; Leaf* q; } with both pointers at one Leaf
PairGraph(base) == {Instance(base, Pair_t, <<PointerField(<<"p">>, 0, Leaf_t, UID(base + 16, 8)), PointerField(<<"q">>, 8, Leaf_t, UID(base + 16, 8))>>), LeafAt(base + 16)}

\* struct Own { int32* p; int32 v; } with p at target; the members are
\* registered p first or v first
OwnGraph(base, target, pFirst) ==
    LET p == PointerField(<<"p">>, 0, int32_t, target)
        v == Field(<<"v">>, 8, int32_t)
    IN {Instance(base, Own_t, IF pFirst THEN <<p, v>> ELSE <<v, p>>)}

OwnValues(base) == {Store(base + 8, IntBytes(-5, 4)), Store(base + 32, IntBytes(77, 4))}

\* struct Holder { int32 k; Leaf* n; } with its Leaf
HolderGraph(base, leaf) == {Instance(base, Holder_t, <<Field(<<"k">>, 0, int32_t), PointerField(<<"n">>, 8, Leaf_t, UID(leaf.addr, leaf.type.m_size))>>), leaf}

HolderValues(base) == {Store(base, IntBytes(4, 4))} \cup LeafValues(base + 16)

\* the instances with setVersion(v) and setMinVersion(min) on the one at addr
Versioned(instances, addr, v, min) == {IF i.addr = addr THEN [i EXCEPT !.version = v, !.minVersion = min] ELSE i : i \in instances}

\* a run: the graph of the sender with its values, the objects the sender
\* removed from its archive, and the graph of the receiver
Scenario(kind, sInstances, sRoot, stores, sRemoved, dInstances, dRoot, added) == [kind |-> kind, sInstances |-> sInstances, sRoot |-> sRoot, stores |-> stores, sRemoved |-> sRemoved, dInstances |-> dInstances, dRoot |-> dRoot, added |-> added]

\* the receiver holds a graph isomorphic to the one of the sender
Isomorphic ==
    {Scenario("iso", RecGraph(SrcBase), UID(SrcBase, 24), RecValues(SrcBase, v[1], v[2], v[3]), {}, RecGraph(DstBase), UID(DstBase, 24), {}) : v \in {<<42, 1, 5>>, <<-1, 0, -128>>, <<0, 1, 127>>}}
    \cup {Scenario("iso", NodeGraph(SrcBase, n), UID(SrcBase, 16), NodeValues(SrcBase, n), {}, NodeGraph(DstBase, n), UID(DstBase, 16), {}) : n \in 1..3}
    \cup {Scenario("iso", PairGraph(SrcBase), UID(SrcBase, 16), LeafValues(SrcBase + 16), {}, PairGraph(DstBase), UID(DstBase, 16), {})}
    \cup {Scenario("iso", OwnGraph(SrcBase, UID(SrcBase + t[1], t[2]), pFirst), UID(SrcBase, 16), OwnValues(SrcBase), {}, OwnGraph(DstBase, UID(DstBase + t[1], t[2]), pFirst), UID(DstBase, 16), {}) : t \in {<<8, 4>>, <<32, 4>>}, pFirst \in BOOLEAN}
    \cup {Scenario("iso", OwnGraph(SrcBase, NO_UID, TRUE), UID(SrcBase, 16), OwnValues(SrcBase), {}, OwnGraph(DstBase, NO_UID, TRUE), UID(DstBase, 16), {})}
    \cup {Scenario("iso", HolderGraph(SrcBase, LeafAt(SrcBase + 16)), UID(SrcBase, 16), HolderValues(SrcBase), {}, HolderGraph(DstBase, LeafAt(DstBase + 16)), UID(DstBase, 16), {})}

\* version and minimum version of the source and of the destination object
VersionPairs == {<<5, 3, 2, 0>>, <<5, 2, 2, 0>>, <<2, 0, 5, 3>>, <<2, 0, 5, 2>>, <<3, 3, 3, 1>>, <<5, 6, 5, 0>>, <<2, 2, 5, 5>>, <<2, 3, 5, 1>>, <<5, 1, 2, 3>>, <<1, 0, 0, 0>>, <<4, 5, 6, 0>>}

\* isomorphic graphs whose root (at 0) or pointee (at 16) differ in version
VersionGate == {Scenario("version", Versioned(HolderGraph(SrcBase, LeafAt(SrcBase + 16)), SrcBase + at, v[1], v[2]), UID(SrcBase, 16), HolderValues(SrcBase), {}, Versioned(HolderGraph(DstBase, LeafAt(DstBase + 16)), DstBase + at, v[3], v[4]), UID(DstBase, 16), {}) : v \in VersionPairs, at \in {0, 16}}

\* one instance of the class type with the fields, as the whole graph
One(base, type, fields) == {Instance(base, type, fields)}

Two_t == ClassType(<<"T","w","o">>, 8)
Wide_t == ClassType(<<"W","i","d","e">>, 16)
Three_t == ClassType(<<"T","h","r","e","e">>, 12)

\* the first eight bytes of the graph of the sender count up from 1
CountUp(base) == {Store(base, <<1, 0, 0, 0>>), Store(base + 4, <<2, 0, 0, 0>>), Store(base + 8, <<3, 0, 0, 0>>)}

\* sender and receiver were built from different definitions of a class
Schema ==
    {Scenario("rename", One(SrcBase, Two_t, <<Field(<<"x">>, 0, int32_t), Field(<<"t">>, 4, int8_t)>>), UID(SrcBase, 8), CountUp(SrcBase), {},
              One(DstBase, Two_t, <<Field(<<"y">>, 0, int32_t), Field(<<"t">>, 4, int8_t)>>), UID(DstBase, 8), {}),
     Scenario("reorder", One(SrcBase, Two_t, <<Field(<<"a">>, 0, int32_t), Field(<<"b">>, 4, int32_t)>>), UID(SrcBase, 8), CountUp(SrcBase), {},
              One(DstBase, Two_t, <<Field(<<"b">>, 0, int32_t), Field(<<"a">>, 4, int32_t)>>), UID(DstBase, 8), {}),
     Scenario("rename", One(SrcBase, Two_t, <<Field(<<"a">>, 0, int32_t), Field(<<"b">>, 4, int32_t)>>), UID(SrcBase, 8), CountUp(SrcBase), {},
              One(DstBase, Two_t, <<Field(<<"c">>, 0, int32_t), Field(<<"d">>, 4, int32_t)>>), UID(DstBase, 8), {}),
     Scenario("rename", One(SrcBase, Three_t, <<Field(<<"a">>, 0, int32_t), Field(<<"b">>, 4, int32_t), Field(<<"t">>, 8, int8_t)>>), UID(SrcBase, 12), CountUp(SrcBase), {},
              One(DstBase, Three_t, <<Field(<<"c">>, 4, int32_t), Field(<<"d">>, 8, int32_t), Field(<<"t">>, 0, int8_t)>>), UID(DstBase, 12), {}),
     Scenario("retype", One(SrcBase, ClassType(<<"X">>, 4), <<Field(<<"x">>, 0, int32_t)>>), UID(SrcBase, 4), CountUp(SrcBase), {},
              One(DstBase, ClassType(<<"X">>, 8), <<Field(<<"x">>, 0, int64_t)>>), UID(DstBase, 8), {}),
     Scenario("retype in place", One(SrcBase, Wide_t, <<Field(<<"x">>, 0, int32_t), Field(<<"y">>, 8, int64_t)>>), UID(SrcBase, 16), CountUp(SrcBase), {},
              One(DstBase, Wide_t, <<Field(<<"x">>, 0, Color_t), Field(<<"y">>, 8, int64_t)>>), UID(DstBase, 16), {}),
     Scenario("added", One(SrcBase, ClassType(<<"A","B">>, 8), <<Field(<<"a">>, 0, int32_t), Field(<<"b">>, 4, int32_t)>>), UID(SrcBase, 8), CountUp(SrcBase), {},
              One(DstBase, ClassType(<<"A","B">>, 12), <<Field(<<"a">>, 0, int32_t), Field(<<"b">>, 4, int32_t), Field(<<"c">>, 8, int32_t)>>), UID(DstBase, 12), Range(DstBase + 8, 4)),
     Scenario("added", One(SrcBase, Two_t, <<Field(<<"a">>, 0, int32_t), Field(<<"b">>, 4, int8_t)>>), UID(SrcBase, 8), CountUp(SrcBase), {},
              One(DstBase, Two_t, <<Field(<<"a">>, 0, int32_t), Field(<<"b">>, 4, int8_t), Field(<<"c">>, 5, int8_t)>>), UID(DstBase, 8), Range(DstBase + 5, 1)),
     Scenario("removed", One(SrcBase, Two_t, <<Field(<<"a">>, 0, int32_t), Field(<<"b">>, 4, int8_t), Field(<<"c">>, 5, int8_t)>>), UID(SrcBase, 8), CountUp(SrcBase), {},
              One(DstBase, Two_t, <<Field(<<"a">>, 0, int32_t), Field(<<"b">>, 4, int8_t)>>), UID(DstBase, 8), {}),
     Scenario("pointee grown", HolderGraph(SrcBase, LeafAt(SrcBase + 16)), UID(SrcBase, 16), HolderValues(SrcBase), {},
              HolderGraph(DstBase, Instance(DstBase + 16, ClassType(<<"L","e","a","f">>, 12), <<Field(<<"v">>, 0, int32_t), Field(<<"w">>, 4, int8_t), Field(<<"u">>, 8, int32_t)>>)), UID(DstBase, 16), {}),
     Scenario("dangling", RecGraph(SrcBase), UID(SrcBase, 24), RecValues(SrcBase, 42, 1, 5), {UID(SrcBase + 8, 4)},
              RecGraph(DstBase), UID(DstBase, 24), {}),
     Scenario("dangling", HolderGraph(SrcBase, LeafAt(SrcBase + 16)), UID(SrcBase, 16), HolderValues(SrcBase), {UID(SrcBase + 16, 8)},
              HolderGraph(DstBase, LeafAt(DstBase + 16)), UID(DstBase, 16), {})}

Scenarios == Isomorphic \cup VersionGate \cup Schema

\* Archive::remove for every object with an identity of uids
RECURSIVE RemoveAll(_, _)
RemoveAll(pool, uids) == IF uids = {} THEN pool ELSE LET u == CHOOSE x \in uids : TRUE IN RemoveAll(Archive_remove(pool, PoolGet(pool, u)), uids \ {u})

Init ==
    \E s \in Scenarios :
        /\ sc = [kind |-> s.kind, added |-> s.added]
        /\ snd = [Archive0 EXCEPT !.m_allObjects = RemoveAll(Walk(s.sInstances), s.sRemoved), !.m_root = s.sRoot]
        /\ src = Archive0
        /\ dst = [Archive0 EXCEPT !.m_allObjects = Walk(s.dInstances), !.m_root = s.dRoot]
        /\ smem = Memory(SenderAddrs, s.stores)
        /\ mem = Memory(ReceiverAddrs, {})
        /\ phase = "walked" /\ err = "" /\ stack = <<>>
        /\ calls = 0 /\ pairs = {} /\ writes = <<>> /\ matches = {}
        /\ src0 = EmptyPool /\ dst0 = EmptyPool
        /\ clock = Now /\ arg = <<>> /\ res = <<>>

\* Archive::encode of the sender
encode ==
    /\ phase = "walked"
    /\ IF Archive_encodeFails(snd, smem)
       THEN Crash("Assertion failed: _primitiveObjectValueToString") /\ snd' = snd
       ELSE snd' = Archive_encode(snd, smem, Now) /\ phase' = "encoded" /\ err' = err
    /\ UNCHANGED <<src, dst, smem, mem, stack, calls, pairs, writes, matches, src0, dst0, sc, clock, arg, res>>

\* the stream with its first i bytes kept and the next one replaced
Corrupted(data, i) == [k \in 1..Len(data) |-> IF k = i + 1 THEN "#" ELSE data[k]]

\* the streams handed to the receiver: the one the sender encoded, its
\* truncations inside the magic, and it with a byte of the magic replaced
Streams(data) == {data} \cup {SubSeq(data, 1, i) : i \in 0..(Len(MAGIC_START) - 1)} \cup {Corrupted(data, i) : i \in 0..(Len(MAGIC_START) - 1)} \cup {Corrupted(SubSeq(data, 1, i + 1), i) : i \in 0..1}

\* the failures of the decoder that are no Exception: the process is killed
Aborts == {"Assertion failed: !chain.empty()", "Assertion failed: m.type()", "Assertion failed: !m.name().empty()", "Assertion failed: m.uid().isValid()", "Assertion failed: obj.type()", "Assertion failed: unknown int type size", "Assertion failed: unknown floating point type", "Assertion failed: unknown primitive type", "Segmentation fault"}

\* Archive::decode of the receiver on a fresh Archive
decode ==
    /\ phase = "encoded"
    /\ \E data \in Streams(snd.m_rawData) :
         LET decoded == Archive_decode(Archive0, data)
         IN /\ src' = decoded.a
            /\ IF decoded.err = "" THEN phase' = "decoded" /\ err' = err
               ELSE IF decoded.err \in Aborts THEN Crash(decoded.err)
               ELSE Throw(decoded.err)
    /\ UNCHANGED <<snd, dst, smem, mem, stack, calls, pairs, writes, matches, src0, dst0, sc, clock, arg, res>>

Next == encode \/ decode \/ Syncer \/ syncObject \/ syncObjectMembers

Spec == Init /\ [][Next]_vars

----------------------------------------------------------------------------
(* Member matching on its own: receiver classes of up to MaxMembers        *)
(* members against sender classes of one or two.                           *)

\* the most members a class of the receiver declares
MaxMembers == 3

Slot_t == ClassType(<<"S","l","o","t">>, 12)

\* the member variables a class may declare
SlotFields == {Field(n, o, t) : n \in {<<"a">>, <<"b">>, <<"c">>, <<"d">>}, o \in {0, 4, 8}, t \in {int32_t, Color_t}}

\* the declarations of n members with names and offsets of their own
Layouts(n) == {l \in [1..n -> SlotFields] : \A i, j \in 1..n : i # j => (l[i].name # l[j].name /\ l[i].offset # l[j].offset)}

DstLayouts == UNION {Layouts(n) : n \in 0..MaxMembers}

SrcLayouts == {<<Field(<<"a">>, 0, int32_t)>>} \cup {<<Field(<<"a">>, 0, int32_t), Field(<<"b">>, 4, t)>> : t \in {int32_t, Color_t}}

\* the archive the sender encoded for its one instance with the members s
Sent(s) == Archive_encode([Archive0 EXCEPT !.m_allObjects = Walk(One(SrcBase, Slot_t, s)), !.m_root = UID(SrcBase, 12)], Memory(SenderAddrs, CountUp(SrcBase)), Now)

\* the receiver has decoded what the sender encoded
InitMatch ==
    \E s \in SrcLayouts, d \in DstLayouts :
        /\ sc = [kind |-> "layout", added |-> {}]
        /\ snd = Sent(s)
        /\ src = Archive_decode(Archive0, snd.m_rawData).a
        /\ dst = [Archive0 EXCEPT !.m_allObjects = Walk(One(DstBase, Slot_t, d)), !.m_root = UID(DstBase, 12)]
        /\ smem = Memory(SenderAddrs, CountUp(SrcBase))
        /\ mem = Memory(ReceiverAddrs, {})
        /\ phase = "decoded" /\ err = "" /\ stack = <<>>
        /\ calls = 0 /\ pairs = {} /\ writes = <<>> /\ matches = {}
        /\ src0 = EmptyPool /\ dst0 = EmptyPool
        /\ clock = Now /\ arg = <<>> /\ res = <<>>

NextMatch == Syncer \/ syncObject \/ syncObjectMembers

SpecMatch == InitMatch /\ [][NextMatch]_vars

----------------------------------------------------------------------------
(* Properties                                                              *)

\* the receiver decoded the very stream the sender encoded
Intact == snd.m_rawData # <<>> /\ src.m_rawData = snd.m_rawData

\* the receiver has called Archive::decode
Decoded == snd.m_rawData # <<>> /\ phase \notin {"walked", "encoded"}

\* the Syncer was constructed
SyncStarted == dst0 # EmptyPool

\* the run is over: the Syncer returned, an Exception was thrown, or the
\* process was killed
Ended == phase \in {"done", "error", "crashed"}

\* the identities of the primitive objects of a pool that are no pointers
Primitives(pool) == {u \in DOMAIN pool : pool[u].m_type.m_baseTypeName # S_class /\ pool[u].m_type.m_baseTypeName # EmptyString /\ ~pool[u].m_type.m_isPointer}

\* two type descriptors agree in base kind, custom tag, width and pointer-ness
SameDescriptor(t, u) == t.m_baseTypeName = u.m_baseTypeName /\ t.m_customTypeName = u.m_customTypeName /\ t.m_size = u.m_size /\ t.m_isPointer = u.m_isPointer

\* the versions differ and the minimum version of the object with the higher
\* version is above the version of the other object
VersionsIncompatible(a, b) == a.m_version # b.m_version /\ (IF a.m_version > b.m_version THEN a.m_minVersion > b.m_version ELSE b.m_minVersion > a.m_version)

\* C1 (round trip): once the Syncer ran on the decoded stream of a sender whose
\* graph is isomorphic to the one of the receiver, it has returned without an
\* error and every primitive of the receiver holds the bytes of the primitive
\* of the sender that corresponds to it.
RoundTrip == (sc.kind = "iso" /\ Intact /\ Ended) => (phase = "done" /\ \A u \in Primitives(dst0) : \A a \in Range(u.id, u.size) : mem[a] = smem[a - Shift])

\* C2 (cycle termination): a sync run ends by returning or by an Exception,
\* never by the process being killed, and at most as many syncObject
\* invocations get past the validity check as the destination pool held
\* objects when the sync started.
CycleTermination == (SyncStarted => phase # "crashed") /\ calls <= Cardinality(DOMAIN dst0)

\* the first (lowest) index of a set of indices
First(S) == CHOOSE i \in S : \A j \in S : i <= j

\* the reference ladder M1 to M4 of member matching
Ladder(dstObj, srcObj, srcMember) ==
    LET D == dstObj.m_members
        named == {i \in DOMAIN D : D[i].m_name = srcMember.m_name}
        typed == {i \in DOMAIN D : SameDescriptor(D[i].m_type, srcMember.m_type)}
        atOffset == {i \in typed : D[i].m_offset = srcMember.m_offset}
        atIndex == {i \in typed : i \in DOMAIN srcObj.m_members /\ srcObj.m_members[i] = srcMember}
    IN IF named # {} THEN (IF First(named) \in typed THEN D[First(named)] ELSE Member0)
       ELSE IF Cardinality(typed) = 1 THEN D[First(typed)]
       ELSE IF atOffset # {} THEN D[First(atOffset)]
       ELSE IF atIndex # {} THEN D[First(atIndex)]
       ELSE Member0

\* C3 (member matching ladder): every call of dstMemberMatching returned what
\* the reference ladder M1 to M4 returns for its destination object, source
\* object and source member.
MemberMatchingLadder == \A m \in matches : m.dstMember = Ladder(m.dstObj, m.srcObj, m.srcMember)

\* a source member was matched by M4 alone: the destination member has another
\* name and another offset and is not the only one of its type
LadderMatchedBySequenceIndex == \E m \in matches : Member_isValid(m.dstMember) /\ m.dstMember.m_name # m.srcMember.m_name /\ m.dstMember.m_offset # m.srcMember.m_offset /\ Cardinality({i \in DOMAIN m.dstObj.m_members : m.dstObj.m_members[i].m_type = m.srcMember.m_type}) > 1 /\ \A i \in DOMAIN m.dstObj.m_members : m.dstObj.m_members[i].m_name # m.srcMember.m_name /\ m.dstObj.m_members[i].m_offset # m.srcMember.m_offset

\* C4 (version gate): a pair of valid objects the Syncer reached, at the root or
\* below, was rejected with "Version incompatible" if and only if their
\* versions differ and the minimum version of the one with the higher version
\* is above the version of the other one.
VersionGateIff ==
    /\ \A p \in pairs : IF VersionsIncompatible(p.dstObj, p.srcObj) THEN p.outcome = "version" /\ phase = "error" /\ err = "Version incompatible" ELSE p.outcome # "version"
    /\ err = "Version incompatible" => \E p \in pairs : p.outcome = "version"

\* a source of version 5 and minimum version 3 was rejected against a
\* destination of version 2
VersionGateRejected == phase = "error" /\ err = "Version incompatible" /\ \E p \in pairs : p.outcome = "version" /\ p.srcObj.m_version = 5 /\ p.srcObj.m_minVersion = 3 /\ p.dstObj.m_version = 2

\* C5 (type barrier): every write of the Syncer took the bytes of a source
\* object whose type descriptor agrees with the one of the destination object
\* in all four attributes, and a pair of valid, version compatible objects
\* whose type descriptors differ was rejected with "Incompatible data structure
\* type" without a write for the pair.
TypeBarrier ==
    /\ \A i \in DOMAIN writes : SameDescriptor(writes[i].dstObj.m_type, writes[i].srcObj.m_type)
    /\ \A p \in pairs : (~VersionsIncompatible(p.dstObj, p.srcObj) /\ ~SameDescriptor(p.dstObj.m_type, p.srcObj.m_type)) =>
          /\ p.outcome = "type" /\ phase = "error" /\ err = "Incompatible data structure type"
          /\ \A i \in DOMAIN writes : ~(writes[i].dstObj = p.dstObj /\ writes[i].srcObj = p.srcObj)

\* a pair was rejected for its types after a member before it was written
TypeBarrierRaised == phase = "error" /\ err = "Incompatible data structure type" /\ writes # <<>> /\ \E p \in pairs : p.outcome = "type" /\ ~SameDescriptor(p.dstObj.m_type, p.srcObj.m_type)

\* C6 (schema tolerance): once the Syncer ran on a destination class that has
\* one member more than the source class, it has returned without an error,
\* the object of every member of the source was written, and the memory of the
\* added member is as it was.
SchemaTolerance == (sc.kind = "added" /\ Intact /\ Ended) =>
    /\ phase = "done"
    /\ \A k \in DOMAIN PoolGet(src0, src.m_root).m_members : \E i \in DOMAIN writes : writes[i].srcObj = PoolGet(src0, PoolGet(src0, src.m_root).m_members[k].m_uid)
    /\ \A a \in sc.added : mem[a] = 0

\* C7 (retyped field rejection): the sync of {x: int32} onto {x: int64} ended
\* with the Exception "Expected member missing in destination object" and
\* without a write.
RetypedFieldRejection == (sc.kind = "retype" /\ Intact /\ Ended) => (phase = "error" /\ err = "Expected member missing in destination object" /\ writes = <<>>)

\* C8 (sync frame): from the construction of the Syncer on, the object pool of
\* the source archive is the one the Syncer was constructed with.
SyncFrame == SyncStarted => src.m_allObjects = src0

\* C9 (handles across address spaces): every address the Syncer wrote to is the
\* handle of the first identity of a primitive object, no pointer, that the
\* destination pool held when the sync started.
HandlesAcrossAddressSpaces == \A i \in DOMAIN writes : \E u \in Primitives(dst0) : u.id = writes[i].addr /\ Object_uid(dst0[u], 0) = u

----------------------------------------------------------------------------
(* The functions studied on their own: arg is drawn, one step applies the  *)
(* function to it and leaves what it returned in res.                      *)

\* no archive is walked, encoded, decoded or synced
Idle ==
    /\ snd = Archive0 /\ src = Archive0 /\ dst = Archive0
    /\ smem = <<>> /\ mem = <<>>
    /\ err = "" /\ stack = <<>>
    /\ calls = 0 /\ pairs = {} /\ writes = <<>> /\ matches = {}
    /\ src0 = EmptyPool /\ dst0 = EmptyPool
    /\ sc = [kind |-> "function", added |-> {}]
    /\ clock = Now

\* the longest byte sequence handed to the blob reader
MaxLen == 4

BlobChars == {"0", "1", "2", ":", "x"}

\* a byte sequence d with a range [p, end) of it
InitBlob ==
    \E n \in 0..MaxLen : \E d \in [1..n -> BlobChars] : \E p \in 1..(n + 1), end \in 1..(n + 1), bThrow \in BOOLEAN :
        /\ arg = [d |-> d, p |-> p, end |-> end, bThrow |-> bThrow]
        /\ res = <<>>
        /\ phase = "drawn"
        /\ Idle

\* _decodeBlob(p, end, bThrow)
decodeBlob ==
    /\ phase = "drawn"
    /\ res' = _decodeBlob(arg.d, arg.p, arg.end, arg.bThrow)
    /\ phase' = "applied"
    /\ UNCHANGED <<snd, src, dst, smem, mem, err, stack, calls, pairs, writes, matches, src0, dst0, sc, clock, arg>>

SpecBlob == InitBlob /\ [][decodeBlob]_vars

\* the number of decimal digits the range [p, end) of d starts with
RECURSIVE DigitRun(_, _, _)
DigitRun(d, p, end) == IF p < end /\ d[p] \in {"0", "1", "2", "3", "4", "5", "6", "7", "8", "9"} THEN 1 + DigitRun(d, p + 1, end) ELSE 0

\* the number that the k digits from d[p] on denote
RECURSIVE DigitRunValue(_, _, _)
DigitRunValue(d, p, k) == IF k = 0 THEN 0 ELSE 10 * DigitRunValue(d, p, k - 1) + (CHOOSE v \in 0..9 : DigitChars[v + 1] = d[p + k - 1])

\* C11 (blob framing): the blob reader accepts a range only if it starts with
\* decimal digits and a ':' behind which as many bytes as the digits say
\* remain, and yields just these bytes; a size beyond the rest of the range
\* raises "Premature end of blob", a byte that is neither digit nor ':' before
\* the ':' raises "Missing blob size", and the result does not depend on a byte
\* behind the end of the range.  (An exhausted range that the reader reports
\* as "no blob" when it is told not to throw is not counted as accepted.)
BlobFraming ==
    phase = "applied" =>
        LET d == arg.d
            p == arg.p
            end == arg.end
            k == DigitRun(d, p, end)
            framed == k >= 1 /\ p + k < end /\ d[p + k] = ":"
            size == DigitRunValue(d, p, k)
            noBlob == ~arg.bThrow /\ p >= end
        IN /\ (res.err = "" /\ ~noBlob) => (framed /\ res.p = p + k + 1 /\ res.end = res.p + size /\ res.end <= end)
           /\ (framed /\ p + k + 1 + size > end) => res.err = "Decode Error: Premature end of blob"
           /\ (p + k < end /\ d[p + k] # ":") => res.err = "Decode Error: Missing blob size"
           /\ res = _decodeBlob(SubSeq(d, 1, end - 1), p, end, arg.bThrow)

----------------------------------------------------------------------------
(* Streams on their own: an archive is encoded, the receiver decodes the   *)
(* stream, and decodes it again with its object blobs in another order.    *)

Empty_t == ClassType(<<"E">>, 1)

Ref_t == ClassType(<<"R","e","f">>, 8)
Unit_t == ClassType(<<"U","n","i","t">>, 8)

\* struct Ref { Unit* n; } with its struct Unit { int32 u; int32 v; } of
\* which v is registered
RefGraph(base) == {Instance(base, Ref_t, <<PointerField(<<"n">>, 0, Unit_t, UID(base + 8, 8))>>), Instance(base + 8, Unit_t, <<Field(<<"v">>, 4, int32_t)>>)}

\* the graphs that are walked: [instances, stores]
StreamGraphs ==
    {[instances |-> One(SrcBase, Empty_t, <<>>), stores |-> {}],
     [instances |-> One(SrcBase, Three_t, <<Field(<<"a">>, 0, int32_t), Field(<<"b">>, 4, int32_t), Field(<<"t">>, 8, int8_t)>>), stores |-> CountUp(SrcBase)],
     [instances |-> NodeGraph(SrcBase, 1), stores |-> NodeValues(SrcBase, 1)],
     [instances |-> RefGraph(SrcBase), stores |-> {Store(SrcBase + 12, IntBytes(6, 4))}]}
    \cup {[instances |-> OwnGraph(SrcBase, UID(SrcBase + 8, 4), pFirst), stores |-> OwnValues(SrcBase)] : pFirst \in BOOLEAN}

\* the sender walked a graph, removed none, one or all of the objects and
\* holds any identity of the walk, or none, as its root
InitStream ==
    \E g \in StreamGraphs :
      \E removed \in {{}, DOMAIN Walk(g.instances)} \cup {{k} : k \in DOMAIN Walk(g.instances)} :
        \E root \in {NO_UID} \cup DOMAIN Walk(g.instances) :
          /\ sc = [kind |-> "stream", added |-> {}]
          /\ snd = [Archive0 EXCEPT !.m_allObjects = RemoveAll(Walk(g.instances), removed), !.m_root = root]
          /\ src = Archive0 /\ dst = Archive0
          /\ smem = Memory(SenderAddrs, g.stores) /\ mem = <<>>
          /\ phase = "walked" /\ err = "" /\ stack = <<>>
          /\ calls = 0 /\ pairs = {} /\ writes = <<>> /\ matches = {}
          /\ src0 = EmptyPool /\ dst0 = EmptyPool
          /\ clock = Now /\ arg = <<>> /\ res = <<>>

\* the orders in which the objects with the identities keys can be emitted
Orders(keys) == {order \in [1..Cardinality(keys) -> keys] : \A i, j \in 1..Cardinality(keys) : order[i] = order[j] => i = j}

\* the stream of the archive a with its object blobs in the given order
Shuffled(a, m, order) == MAGIC_START \o _encodeBlob(_encodeBlob(ToString_int(ENCODING_FORMAT_MINOR_VERSION)) \o _encode_UID(a.m_root) \o _encodeBlob(_encode_Objects(a.m_allObjects, order, 1, m)) \o _encodeBlob(a.m_name) \o _encodeBlob(a.m_comment) \o _encode_time(a.m_timeCreated) \o _encode_time(a.m_timeModified)) \o <<NUL>>

\* Archive::decode, on a fresh Archive, of the stream in another order
decodeShuffled ==
    /\ phase = "decoded"
    /\ \E order \in Orders(DOMAIN snd.m_allObjects) :
         LET decoded == Archive_decode(Archive0, Shuffled(snd, smem, order))
         IN /\ dst' = decoded.a
            /\ res' = [order |-> order, err |-> decoded.err]
    /\ phase' = "shuffled"
    /\ UNCHANGED <<snd, src, smem, mem, err, stack, calls, pairs, writes, matches, src0, dst0, sc, clock, arg>>

NextStream == encode \/ decode \/ decodeShuffled

SpecStream == InitStream /\ [][NextStream]_vars

\* C12 (declared root): Archive::decode of the stream of an archive succeeds
\* only if the root of the archive is a valid identity and the pool of the
\* archive holds an object with it; a stream with an invalid root raises "No
\* root object", one whose root has no object in the pool raises "Missing
\* declared root object", and after a decode that succeeded rootObject() is
\* a valid object.
DeclaredRoot ==
    (Decoded /\ Intact) =>
        /\ phase = "decoded" => (UID_isValid(snd.m_root) /\ snd.m_root \in DOMAIN snd.m_allObjects /\ Object_isValid(PoolGet(src.m_allObjects, src.m_root)))
        /\ ~UID_isValid(snd.m_root) => (phase = "error" /\ err = "Decode Error: No root object")
        /\ (UID_isValid(snd.m_root) /\ snd.m_root \notin DOMAIN snd.m_allObjects) => (phase = "error" /\ err = "Decode Error: Missing declared root object")

\* C13 (order-independent decode): the stream of an archive, whose objects
\* have pairwise distinct identities, decodes to the same pool and the same
\* root in whatever order its object blobs are.
OrderIndependentDecode == (phase = "shuffled" /\ Intact) => (res.err = "" /\ dst.m_allObjects = src.m_allObjects /\ dst.m_root = src.m_root)

\* a stream of three or more objects was decoded in another order than the
\* one in which it was encoded
DecodedOutOfOrder == phase = "shuffled" /\ Intact /\ Cardinality(DOMAIN snd.m_allObjects) >= 3 /\ res.order # KeysInOrder(DOMAIN snd.m_allObjects) /\ Shuffled(snd, smem, res.order) # snd.m_rawData /\ DOMAIN dst.m_allObjects = DOMAIN snd.m_allObjects

\* C14 (member order): every object decoded from the stream of an archive has
\* the members of the object it was encoded from in the same order, so
\* sequenceIndexOf gives a member the same index on both sides.
MemberOrder ==
    (phase = "decoded" /\ Intact) =>
        \A k \in DOMAIN snd.m_allObjects :
            /\ PoolGet(src.m_allObjects, k).m_members = snd.m_allObjects[k].m_members
            /\ \A i \in DOMAIN snd.m_allObjects[k].m_members : sequenceIndexOf(PoolGet(src.m_allObjects, k), snd.m_allObjects[k].m_members[i]) = sequenceIndexOf(snd.m_allObjects[k], snd.m_allObjects[k].m_members[i])

\* an object with three members was decoded
ThreeMembersDecoded == phase = "decoded" /\ Intact /\ \E k \in DOMAIN src.m_allObjects : Len(src.m_allObjects[k].m_members) = 3 /\ sequenceIndexOf(src.m_allObjects[k], snd.m_allObjects[k].m_members[3]) = 2

----------------------------------------------------------------------------
(* The ordering of type descriptors on its own.                            *)

\* the type descriptors that are compared
Descriptors == {DataType(isPointer, size, base, custom) : isPointer \in BOOLEAN, size \in {1, 4}, base \in {S_class, S_enum, S_int32, S_uint8}, custom \in {EmptyString, <<"A">>, <<"B">>}}

InitOrder ==
    \E a \in Descriptors, b \in Descriptors :
        /\ arg = [a |-> a, b |-> b]
        /\ res = <<>>
        /\ phase = "drawn"
        /\ Idle

\* a < b, b < a and a > b
compare ==
    /\ phase = "drawn"
    /\ res' = [lt |-> DataType_lt(arg.a, arg.b), tl |-> DataType_lt(arg.b, arg.a), gt |-> DataType_gt(arg.a, arg.b)]
    /\ phase' = "compared"
    /\ UNCHANGED <<snd, src, dst, smem, mem, err, stack, calls, pairs, writes, matches, src0, dst0, sc, clock, arg>>

SpecOrder == InitOrder /\ [][compare]_vars

\* (m_baseTypeName, m_customTypeName, m_size, m_isPointer) of a is
\* lexicographically smaller than that of b
TupleLess(a, b) ==
    \/ String_less(a.m_baseTypeName, b.m_baseTypeName)
    \/ /\ a.m_baseTypeName = b.m_baseTypeName
       /\ \/ String_less(a.m_customTypeName, b.m_customTypeName)
          \/ /\ a.m_customTypeName = b.m_customTypeName
             /\ \/ a.m_size < b.m_size
                \/ a.m_size = b.m_size /\ bool_less(a.m_isPointer, b.m_isPointer)

\* C20 (type descriptor ordering): a < b holds exactly when the tuple
\* (m_baseTypeName, m_customTypeName, m_size, m_isPointer) of a is
\* lexicographically smaller than that of b, and a < b and b < a never hold
\* together.
TypeOrdering == phase = "compared" => ((res.lt <=> TupleLess(arg.a, arg.b)) /\ ~(res.lt /\ res.tl))

----------------------------------------------------------------------------
(* One archive under its public operations: snd is the archive, smem the   *)
(* memory of its graph, clock the time, arg the operation applied last     *)
(* with the number of operations and of encodes so far, res what it        *)
(* returned.                                                               *)

\* operations applied to the archive in one run
MaxOps == 3

\* the graphs that are serialized: [instances, root, stores]
ArchiveGraphs ==
    {[instances |-> One(SrcBase, Two_t, <<Field(<<"a">>, 0, int32_t), Field(<<"b">>, 4, int8_t)>>), root |-> UID(SrcBase, 8), stores |-> CountUp(SrcBase)],
     [instances |-> OwnGraph(SrcBase, UID(SrcBase + 8, 4), TRUE), root |-> UID(SrcBase, 16), stores |-> OwnValues(SrcBase)]}

\* Archive::Archive()
InitArchive ==
    \E g \in ArchiveGraphs :
        /\ sc = [kind |-> "archive", added |-> {}, instances |-> g.instances, root |-> g.root]
        /\ snd = Archive0 /\ src = Archive0 /\ dst = Archive0
        /\ smem = Memory(SenderAddrs, g.stores) /\ mem = <<>>
        /\ phase = "operating" /\ err = "" /\ stack = <<>>
        /\ calls = 0 /\ pairs = {} /\ writes = <<>> /\ matches = {}
        /\ src0 = EmptyPool /\ dst0 = EmptyPool
        /\ clock = Now
        /\ arg = [op |-> "Archive", n |-> 0, encodes |-> 0, pristine |-> TRUE]
        /\ res = <<>>

Operating == phase = "operating" /\ arg.n < MaxOps

\* the operation op was applied and returned
Applied(op) == arg' = [arg EXCEPT !.op = op, !.n = @ + 1]

\* the operation op was applied to the entry of the pool with the key k and
\* returned
AppliedTo(op, k) == arg' = [op |-> op, n |-> arg.n + 1, encodes |-> arg.encodes, pristine |-> arg.pristine, object |-> k]

\* the operation op was applied and returned, and called Archive::encode
Encoded(op) == arg' = [arg EXCEPT !.op = op, !.n = @ + 1, !.encodes = @ + 1]

\* the operation op was applied and returned, and reset the archive
Reset(op) == arg' = [arg EXCEPT !.op = op, !.n = @ + 1, !.pristine = FALSE]

\* the variables no operation of the archive touches
Rest == UNCHANGED <<src, dst, smem, mem, stack, calls, pairs, writes, matches, src0, dst0, sc>>

\* Archive::serialize(obj): the pool is cleared, the graph is walked from
\* its root and the archive is encoded
serialize ==
    /\ Operating
    /\ \E now \in {clock, clock + 1} :
         /\ snd' = Archive_encode([snd EXCEPT !.m_allObjects = Walk(sc.instances), !.m_rawData = <<>>, !.m_root = sc.root], smem, now)
         /\ clock' = now
    /\ Encoded("serialize")
    /\ res' = <<>> /\ err' = "" /\ phase' = phase
    /\ Rest

\* Archive::rawData
rawData ==
    /\ Operating
    /\ IF ~snd.m_isModified
       THEN res' = snd.m_rawData /\ Applied("rawData") /\ err' = "" /\ UNCHANGED <<snd, clock, phase>>
       ELSE IF Archive_encodeFails(snd, smem)
       THEN Crash("Assertion failed: _primitiveObjectValueToString") /\ Applied("rawData") /\ UNCHANGED <<snd, clock, res>>
       ELSE \E now \in {clock, clock + 1} :
              /\ snd' = Archive_encode(snd, smem, now)
              /\ clock' = now
              /\ res' = Archive_encode(snd, smem, now).m_rawData
              /\ Encoded("rawData") /\ err' = "" /\ phase' = phase
    /\ Rest

\* Archive::clear
clear ==
    /\ Operating
    /\ snd' = [snd EXCEPT !.m_allObjects = EmptyPool, !.m_root = NO_UID, !.m_rawData = <<>>, !.m_isModified = FALSE, !.m_timeCreated = LIBGIG_EPOCH_TIME, !.m_timeModified = LIBGIG_EPOCH_TIME]
    /\ Reset("clear")
    /\ res' = <<>> /\ err' = ""
    /\ UNCHANGED <<clock, phase>>
    /\ Rest

\* Archive::decode(data) of the stream that the archive returned last
decodeOwn ==
    /\ Operating
    /\ snd.m_rawData # <<>>
    /\ LET decoded == Archive_decode(snd, snd.m_rawData)
       IN /\ snd' = decoded.a
          /\ IF decoded.err \in Aborts THEN Crash(decoded.err) ELSE err' = decoded.err /\ phase' = phase
    /\ Reset("decode")
    /\ res' = <<>>
    /\ UNCHANGED clock
    /\ Rest

\* Archive::setName
setName ==
    /\ Operating
    /\ \E name \in {EmptyString, <<"n">>} :
         snd' = IF snd.m_name = name THEN snd ELSE [snd EXCEPT !.m_name = name, !.m_isModified = TRUE]
    /\ Applied("setName")
    /\ res' = <<>> /\ err' = ""
    /\ UNCHANGED <<clock, phase>>
    /\ Rest

\* Archive::setComment
setComment ==
    /\ Operating
    /\ \E comment \in {EmptyString, <<"c">>} :
         snd' = IF snd.m_comment = comment THEN snd ELSE [snd EXCEPT !.m_comment = comment, !.m_isModified = TRUE]
    /\ Applied("setComment")
    /\ res' = <<>> /\ err' = ""
    /\ UNCHANGED <<clock, phase>>
    /\ Rest

\* Object::remove(member)
Object_remove(obj, member) == IF sequenceIndexOf(obj, member) < 0 THEN obj ELSE [obj EXCEPT !.m_members = SubSeq(@, 1, sequenceIndexOf(obj, member)) \o SubSeq(@, sequenceIndexOf(obj, member) + 2, Len(@))]

\* Archive::removeMember(parent, member), parent being the entry of the pool
\* with the key k
removeMember ==
    /\ Operating
    /\ \E k \in DOMAIN snd.m_allObjects :
         \E member \in {snd.m_allObjects[k].m_members[i] : i \in DOMAIN snd.m_allObjects[k].m_members} \cup {Member0} :
           snd' = [snd EXCEPT !.m_allObjects[k] = Object_remove(@, member), !.m_isModified = TRUE]
    /\ Applied("removeMember")
    /\ res' = <<>> /\ err' = ""
    /\ UNCHANGED <<clock, phase>>
    /\ Rest

\* Archive::remove(obj), obj being an object of the pool or Object()
remove ==
    /\ Operating
    /\ \E obj \in {snd.m_allObjects[k] : k \in DOMAIN snd.m_allObjects} \cup {Object0} :
         snd' = IF ~UID_isValid(Object_uid(obj, 0)) THEN snd ELSE [snd EXCEPT !.m_allObjects = Archive_remove(@, obj), !.m_isModified = TRUE]
    /\ Applied("remove")
    /\ res' = <<>> /\ err' = ""
    /\ UNCHANGED <<clock, phase>>
    /\ Rest

\* Archive::objectByUID(uid), uid being the identity of a datum of the graph,
\* that of a datum that was never registered, or NO_UID
objectByUID ==
    /\ Operating
    /\ \E uid \in DOMAIN Walk(sc.instances) \cup {UID(SrcBase + 32, 4), NO_UID} :
         /\ snd' = [snd EXCEPT !.m_allObjects = PoolTouch(@, uid)]
         /\ res' = PoolGet(snd.m_allObjects, uid)
    /\ Applied("objectByUID")
    /\ err' = ""
    /\ UNCHANGED <<clock, phase>>
    /\ Rest

\* Archive::rootObject
rootObject ==
    /\ Operating
    /\ snd' = [snd EXCEPT !.m_allObjects = PoolTouch(@, snd.m_root)]
    /\ res' = PoolGet(snd.m_allObjects, snd.m_root)
    /\ Applied("rootObject")
    /\ err' = ""
    /\ UNCHANGED <<clock, phase>>
    /\ Rest

\* Archive::setVersion(object, v), object being the entry of the pool with
\* the key k
setVersion ==
    /\ Operating
    /\ \E k \in DOMAIN snd.m_allObjects, v \in {1, 2} :
         snd' = IF ~Object_isValid(snd.m_allObjects[k]) THEN snd ELSE [snd EXCEPT !.m_allObjects[k].m_version = v, !.m_isModified = TRUE]
    /\ Applied("setVersion")
    /\ res' = <<>> /\ err' = ""
    /\ UNCHANGED <<clock, phase>>
    /\ Rest

\* Archive::setMinVersion(object, v), object being the entry of the pool
\* with the key k
setMinVersion ==
    /\ Operating
    /\ \E k \in DOMAIN snd.m_allObjects, v \in {1, 2} :
         snd' = IF ~Object_isValid(snd.m_allObjects[k]) THEN snd ELSE [snd EXCEPT !.m_allObjects[k].m_minVersion = v, !.m_isModified = TRUE]
    /\ Applied("setMinVersion")
    /\ res' = <<>> /\ err' = ""
    /\ UNCHANGED <<clock, phase>>
    /\ Rest

\* Archive::setIntValue once pObject is known to refer to the entry with the
\* key target of the pool touched
Archive_setIntValue_at(a, touched, target, value) ==
    IF PoolGet(touched, target).m_type.m_size \notin {1, 2, 4, 8}
    THEN [err |-> "Assertion failed: unknown int type size", a |-> [a EXCEPT !.m_allObjects = touched]]
    ELSE [err |-> "", a |-> [a EXCEPT !.m_allObjects = [touched EXCEPT ![target].m_data = IntBytes(value, PoolGet(touched, target).m_type.m_size)], !.m_isModified = TRUE]]

\* Archive::setIntValue that sets m_isModified before it looks at the type
Archive_setIntValue_marked(a, k, value) ==
    IF ~Object_isValid(a.m_allObjects[k]) THEN [err |-> "", a |-> a]
    ELSE IF ~DataType_isInteger(a.m_allObjects[k].m_type) THEN [err |-> "Not an integer data type", a |-> [a EXCEPT !.m_isModified = TRUE]]
    ELSE IF ~DataType_isPointer(a.m_allObjects[k].m_type) THEN Archive_setIntValue_at(a, a.m_allObjects, k, value)
    ELSE IF ~Object_isValid(PoolGet(a.m_allObjects, Object_uid(a.m_allObjects[k], 1))) THEN [err |-> "", a |-> [a EXCEPT !.m_allObjects = PoolTouch(@, Object_uid(a.m_allObjects[k], 1))]]
    ELSE Archive_setIntValue_at(a, a.m_allObjects, Object_uid(a.m_allObjects[k], 1), value)

\* Archive::setIntValue(object, value), object being the entry of the pool
\* with the key k: [err, a]
Archive_setIntValue(a, k, value) ==
    IF ~Object_isValid(a.m_allObjects[k]) THEN [err |-> "", a |-> a]
    ELSE IF ~DataType_isInteger(a.m_allObjects[k].m_type) THEN [err |-> "Not an integer data type", a |-> a]
    ELSE IF ~DataType_isPointer(a.m_allObjects[k].m_type) THEN Archive_setIntValue_at(a, a.m_allObjects, k, value)
    ELSE IF ~Object_isValid(PoolGet(a.m_allObjects, Object_uid(a.m_allObjects[k], 1))) THEN [err |-> "", a |-> [a EXCEPT !.m_allObjects = PoolTouch(@, Object_uid(a.m_allObjects[k], 1))]]
    ELSE Archive_setIntValue_at(a, a.m_allObjects, Object_uid(a.m_allObjects[k], 1), value)

setIntValue ==
    /\ Operating
    /\ \E k \in DOMAIN snd.m_allObjects, value \in {-2} :
         /\ snd' = Archive_setIntValue(snd, k, value).a
         /\ IF Archive_setIntValue(snd, k, value).err \in Aborts THEN Crash(Archive_setIntValue(snd, k, value).err) ELSE err' = Archive_setIntValue(snd, k, value).err /\ phase' = phase
         /\ AppliedTo("setIntValue", k)
    /\ res' = <<>>
    /\ UNCHANGED clock
    /\ Rest

NextArchive == serialize \/ rawData \/ clear \/ decodeOwn \/ setName \/ setComment \/ removeMember \/ remove \/ objectByUID \/ rootObject \/ setVersion \/ setMinVersion \/ setIntValue

SpecArchive == InitArchive /\ [][NextArchive]_vars

\* the two timestamps that the decoder reads at the end of the stream of the
\* archive a are m_timeCreated and m_timeModified of a
Stamped(a) == _popSeq(<<K_time, K_time>>, a.m_rawData, Len(a.m_rawData) - Len(_encode_time(a.m_timeCreated)) - Len(_encode_time(a.m_timeModified)), Len(a.m_rawData), <<>>) = Ok(Len(a.m_rawData), <<a.m_timeCreated, a.m_timeModified>>)

\* C15 (encode timestamps): as long as the archive was neither decoded nor
\* cleared, every Archive::encode sets m_timeModified to the time of the call,
\* the first one sets m_timeCreated to that time too, every later one leaves
\* m_timeCreated as it is, and the stream written carries both timestamps.
EncodeTimestamps ==
    [][(arg'.encodes = arg.encodes + 1 /\ arg'.pristine) =>
          /\ snd'.m_timeModified = clock'
          /\ snd'.m_timeCreated = (IF arg.encodes = 0 THEN clock' ELSE snd.m_timeCreated)
          /\ Stamped(snd')]_vars

\* a second encode, one second after the first, has left m_timeCreated
LaterEncodeKeptCreated == arg.pristine /\ arg.encodes = 2 /\ arg.op \in {"serialize", "rawData"} /\ snd.m_timeCreated = Now /\ snd.m_timeModified = Now + 1 /\ Stamped(snd)

\* C16 (lazy re-encode): the stream that Archive::rawData returns is the
\* encoding of the pool, the root, the name and the comment that the archive
\* holds, and m_isModified is false behind the call.  (An archive that holds
\* no stream, fresh or cleared, is not counted.)
LazyReencode == (phase = "operating" /\ arg.op = "rawData" /\ res # <<>>) => (res = MAGIC_START \o _encodeRootBlob(snd, smem) \o <<NUL>> /\ ~snd.m_isModified)

\* C17 (pool validity): every entry of the pool of the archive is a valid
\* object: its type is valid and its chain of identities starts with a valid
\* identity.
PoolValidity == \A k \in DOMAIN snd.m_allObjects : Object_isValid(snd.m_allObjects[k]) /\ UID_isValid(Object_uid(snd.m_allObjects[k], 0))

\* C18 (version ordering): every object of the pool has a version that is not
\* below its minimum version.
VersionOrdering == \A k \in DOMAIN snd.m_allObjects : snd.m_allObjects[k].m_version >= snd.m_allObjects[k].m_minVersion

\* C19 (referential integrity): the pool holds an entry for the second
\* identity of every pointer object, if that identity is valid, and for the
\* identity of every member of every object.
ReferentialIntegrity ==
    \A k \in DOMAIN snd.m_allObjects :
        /\ (DataType_isPointer(snd.m_allObjects[k].m_type) /\ UID_isValid(Object_uid(snd.m_allObjects[k], 1))) => Object_uid(snd.m_allObjects[k], 1) \in DOMAIN snd.m_allObjects
        /\ \A i \in DOMAIN snd.m_allObjects[k].m_members : snd.m_allObjects[k].m_members[i].m_uid \in DOMAIN snd.m_allObjects

----------------------------------------------------------------------------
(* The value setters of an archive that was serialized.                    *)

\* sizeof(enum operation_t)
nativeEnumSize == 4

\* Archive::setEnumValue once pObject is known to refer to the entry with the
\* key target of the pool touched: the size of its type is set to
\* nativeEnumSize, which leaves the write of a uint32_t
Archive_setEnumValue_at(a, touched, target, value) == [err |-> "", a |-> [a EXCEPT !.m_allObjects = [touched EXCEPT ![target].m_type.m_size = nativeEnumSize, ![target].m_data = IntBytes(value, nativeEnumSize)], !.m_isModified = TRUE]]

\* Archive::setEnumValue(object, value), object being the entry of the pool
\* with the key k: [err, a]
Archive_setEnumValue(a, k, value) ==
    IF ~Object_isValid(a.m_allObjects[k]) THEN [err |-> "", a |-> a]
    ELSE IF ~DataType_isEnum(a.m_allObjects[k].m_type) THEN [err |-> "Not an enum data type", a |-> a]
    ELSE IF ~DataType_isPointer(a.m_allObjects[k].m_type) THEN Archive_setEnumValue_at(a, a.m_allObjects, k, value)
    ELSE IF ~Object_isValid(PoolGet(a.m_allObjects, Object_uid(a.m_allObjects[k], 1))) THEN [err |-> "", a |-> [a EXCEPT !.m_allObjects = PoolTouch(@, Object_uid(a.m_allObjects[k], 1))]]
    ELSE Archive_setEnumValue_at(a, a.m_allObjects, Object_uid(a.m_allObjects[k], 1), value)

setEnumValue ==
    /\ Operating
    /\ \E k \in DOMAIN snd.m_allObjects, value \in {1} :
         /\ snd' = Archive_setEnumValue(snd, k, value).a
         /\ err' = Archive_setEnumValue(snd, k, value).err
         /\ AppliedTo("setEnumValue", k)
    /\ res' = <<>>
    /\ UNCHANGED <<clock, phase>>
    /\ Rest

\* Archive::setRealValue once pObject is known to refer to the entry with the
\* key target of the pool touched; the value is 0.0, of which all bytes are 0
\* as a float and as a double
Archive_setRealValue_at(a, touched, target) ==
    IF PoolGet(touched, target).m_type.m_size \notin {4, 8}
    THEN [err |-> "Assertion failed: unknown real type size", a |-> [a EXCEPT !.m_allObjects = [touched EXCEPT ![target].m_data = StoreAt0(PoolGet(touched, target).m_type.m_size, @)]]]
    ELSE [err |-> "", a |-> [a EXCEPT !.m_allObjects = [touched EXCEPT ![target].m_data = ZeroBytes(PoolGet(touched, target).m_type.m_size)], !.m_isModified = TRUE]]

\* Archive::setRealValue(object, 0.0), object being the entry of the pool
\* with the key k: [err, a]
Archive_setRealValue(a, k) ==
    IF ~Object_isValid(a.m_allObjects[k]) THEN [err |-> "", a |-> a]
    ELSE IF ~DataType_isReal(a.m_allObjects[k].m_type) THEN [err |-> "Not a real data type", a |-> a]
    ELSE IF ~DataType_isPointer(a.m_allObjects[k].m_type) THEN Archive_setRealValue_at(a, a.m_allObjects, k)
    ELSE IF ~Object_isValid(PoolGet(a.m_allObjects, Object_uid(a.m_allObjects[k], 1))) THEN [err |-> "", a |-> [a EXCEPT !.m_allObjects = PoolTouch(@, Object_uid(a.m_allObjects[k], 1))]]
    ELSE Archive_setRealValue_at(a, a.m_allObjects, Object_uid(a.m_allObjects[k], 1))

setRealValue ==
    /\ Operating
    /\ \E k \in DOMAIN snd.m_allObjects :
         /\ snd' = Archive_setRealValue(snd, k).a
         /\ IF Archive_setRealValue(snd, k).err = "Assertion failed: unknown real type size" THEN Crash(Archive_setRealValue(snd, k).err) ELSE err' = Archive_setRealValue(snd, k).err /\ phase' = phase
         /\ AppliedTo("setRealValue", k)
    /\ res' = <<>>
    /\ UNCHANGED clock
    /\ Rest

\* Archive::setBoolValue once pObject is known to refer to the entry with the
\* key target of the pool touched: m_data is resized and its first byte
\* written
Archive_setBoolValue_at(a, touched, target, value) == [err |-> "", a |-> [a EXCEPT !.m_allObjects = [touched EXCEPT ![target].m_data = [StoreAt0(PoolGet(touched, target).m_type.m_size, @) EXCEPT ![1] = IF value THEN 1 ELSE 0]], !.m_isModified = TRUE]]

\* Archive::setBoolValue(object, value), object being the entry of the pool
\* with the key k: [err, a]
Archive_setBoolValue(a, k, value) ==
    IF ~Object_isValid(a.m_allObjects[k]) THEN [err |-> "", a |-> a]
    ELSE IF ~DataType_isBool(a.m_allObjects[k].m_type) THEN [err |-> "Not a bool data type", a |-> a]
    ELSE IF ~DataType_isPointer(a.m_allObjects[k].m_type) THEN Archive_setBoolValue_at(a, a.m_allObjects, k, value)
    ELSE IF ~Object_isValid(PoolGet(a.m_allObjects, Object_uid(a.m_allObjects[k], 1))) THEN [err |-> "", a |-> [a EXCEPT !.m_allObjects = PoolTouch(@, Object_uid(a.m_allObjects[k], 1))]]
    ELSE Archive_setBoolValue_at(a, a.m_allObjects, Object_uid(a.m_allObjects[k], 1), value)

setBoolValue ==
    /\ Operating
    /\ \E k \in DOMAIN snd.m_allObjects, value \in BOOLEAN :
         /\ snd' = Archive_setBoolValue(snd, k, value).a
         /\ err' = Archive_setBoolValue(snd, k, value).err
         /\ AppliedTo("setBoolValue", k)
    /\ res' = <<>>
    /\ UNCHANGED <<clock, phase>>
    /\ Rest

\* struct Dim { Color* e; bool b; } with e at a Color that is registered on
\* its own
Dim_t == ClassType(<<"D","i","m">>, 16)

\* the graphs whose values are set: [instances, root, stores]
MutatorGraphs ==
    {[instances |-> RecGraph(SrcBase), root |-> UID(SrcBase, 24), stores |-> RecValues(SrcBase, 42, 1, 5)],
     [instances |-> OwnGraph(SrcBase, UID(SrcBase + 8, 4), TRUE), root |-> UID(SrcBase, 16), stores |-> OwnValues(SrcBase)],
     [instances |-> OwnGraph(SrcBase, UID(SrcBase + 32, 4), TRUE), root |-> UID(SrcBase, 16), stores |-> OwnValues(SrcBase)],
     [instances |-> {Instance(SrcBase, Dim_t, <<PointerField(<<"e">>, 0, Color_t, UID(SrcBase + 12, 4)), Field(<<"b">>, 8, bool_t), Field(<<"c">>, 12, Color_t)>>)}, root |-> UID(SrcBase, 16), stores |-> {Store(SrcBase + 8, <<1>>), Store(SrcBase + 12, IntBytes(2, 4))}]}

\* Archive::serialize(obj) was called on a new Archive
InitMutator ==
    \E g \in MutatorGraphs :
        /\ sc = [kind |-> "archive", added |-> {}, instances |-> g.instances, root |-> g.root]
        /\ snd = Archive_encode([Archive0 EXCEPT !.m_allObjects = Walk(g.instances), !.m_root = g.root], Memory(SenderAddrs, g.stores), Now)
        /\ src = Archive0 /\ dst = Archive0
        /\ smem = Memory(SenderAddrs, g.stores) /\ mem = <<>>
        /\ phase = "operating" /\ err = "" /\ stack = <<>>
        /\ calls = 0 /\ pairs = {} /\ writes = <<>> /\ matches = {}
        /\ src0 = EmptyPool /\ dst0 = EmptyPool
        /\ clock = Now
        /\ arg = [op |-> "serialize", n |-> 1, encodes |-> 1, pristine |-> TRUE]
        /\ res = <<>>

NextMutator == setIntValue \/ setEnumValue \/ setRealValue \/ setBoolValue

SpecMutator == InitMutator /\ [][NextMutator]_vars

\* the setter op takes objects of this type
Settable(op, type) ==
    \/ op = "setIntValue" /\ DataType_isInteger(type)
    \/ op = "setEnumValue" /\ DataType_isEnum(type)
    \/ op = "setRealValue" /\ DataType_isReal(type)
    \/ op = "setBoolValue" /\ DataType_isBool(type)

Mismatch(op) == CASE op = "setIntValue" -> "Not an integer data type" [] op = "setEnumValue" -> "Not an enum data type" [] op = "setRealValue" -> "Not a real data type" [] op = "setBoolValue" -> "Not a bool data type"

\* C21 (mutator type mismatch): setIntValue on a valid object whose type is
\* no integer, and likewise setEnumValue, setRealValue and setBoolValue on an
\* object that is not of their type, throws the Exception of the setter and
\* leaves the archive, with the data and the type of the object, the pool and
\* m_isModified, as it is.
MutatorTypeMismatch ==
    [][(arg'.op \in {"setIntValue", "setEnumValue", "setRealValue", "setBoolValue"} /\ arg'.n = arg.n + 1 /\ Object_isValid(snd.m_allObjects[arg'.object]) /\ ~Settable(arg'.op, snd.m_allObjects[arg'.object].m_type))
          => (err' = Mismatch(arg'.op) /\ snd' = snd)]_vars

\* a setter was called on an object that is not of its type, behind a setter
\* that has modified the archive
MismatchRaised == arg.op \in {"setIntValue", "setEnumValue", "setRealValue", "setBoolValue"} /\ err = Mismatch(arg.op) /\ snd.m_isModified /\ ~Settable(arg.op, snd.m_allObjects[arg.object].m_type) /\ snd.m_allObjects[arg.object].m_data # <<>>

----------------------------------------------------------------------------
(* The codec of integer values on its own.                                 *)

\* the integer type of w bytes
IntType(w, signed) == DataType(FALSE, w, (IF signed THEN EmptyString ELSE <<"u">>) \o (CASE w = 1 -> S_int8 [] w = 2 -> S_int16 [] w = 4 -> S_int32 [] w = 8 -> S_int64), EmptyString)

\* the bytes values are made of: the low bytes are all lo, the top byte is hi
CodecBytes == {0, 1, 127, 128, 255}

InitCodec ==
    \E w \in {1, 2, 4, 8}, signed \in BOOLEAN, lo \in CodecBytes, hi \in CodecBytes :
        /\ arg = [type |-> IntType(w, signed), bytes |-> [i \in 1..w |-> IF i = w THEN hi ELSE lo]]
        /\ res = <<>>
        /\ phase = "drawn"
        /\ Idle

\* return i * sign, in _popIntBlob<T_int>, is a signed overflow: T_int is
\* int32_t or int64_t, sign is -1 and i is the minimum of T_int
SignedOverflow(T, negative, i) == T.signed /\ T.size \in {4, 8} /\ negative /\ i # ZeroBytes(T.size) /\ Negate(i) = i

\* what _popIntBlob<T_int> is left with by return i * sign on the text s of a
\* value: the result for a product that T_int holds; for one that overflows,
\* which is undefined, the wrapped product or the end of the process
SignOutcomes(T, s, decoded) ==
    IF SignedOverflow(T, s[1] = "-", _popIntDigits(s, 2, Len(s) + 1, ZeroBytes(T.size), T).v)
    THEN {decoded, [err |-> "signed integer overflow", data |-> <<>>]}
    ELSE {decoded}

\* the object of a value: _primitiveObjectValueToString into a blob, and
\* _popPrimitiveValue of the blob into an object of the same type
encodeDecodePrimitive ==
    /\ phase = "drawn"
    /\ res' \in SignOutcomes(T_of(arg.type), _primitiveObjectValueToString([Object(<<UID(SrcBase, arg.type.m_size)>>, arg.type) EXCEPT !.m_data = arg.bytes], <<>>),
                             [err |-> _popPrimitiveValue(_encodePrimitiveValue([Object(<<UID(SrcBase, arg.type.m_size)>>, arg.type) EXCEPT !.m_data = arg.bytes], <<>>), 1, Len(_encodePrimitiveValue([Object(<<UID(SrcBase, arg.type.m_size)>>, arg.type) EXCEPT !.m_data = arg.bytes], <<>>)) + 1, Object(<<UID(SrcBase, arg.type.m_size)>>, arg.type)).err,
                              data |-> _popPrimitiveValue(_encodePrimitiveValue([Object(<<UID(SrcBase, arg.type.m_size)>>, arg.type) EXCEPT !.m_data = arg.bytes], <<>>), 1, Len(_encodePrimitiveValue([Object(<<UID(SrcBase, arg.type.m_size)>>, arg.type) EXCEPT !.m_data = arg.bytes], <<>>)) + 1, Object(<<UID(SrcBase, arg.type.m_size)>>, arg.type)).v.m_data])
    /\ phase' = "applied"
    /\ UNCHANGED <<snd, src, dst, smem, mem, err, stack, calls, pairs, writes, matches, src0, dst0, sc, clock, arg>>

SpecCodec == InitCodec /\ [][encodeDecodePrimitive]_vars

----------------------------------------------------------------------------
(* The decoding constructors.  A buffer, intact, cut or corrupted, is      *)
(* handed to Archive(const RawData&), to Archive(const uint8_t*, size_t)   *)
(* and to decode() of an Archive(); res keeps what each of them left and   *)
(* raised.                                                                 *)

\* Archive::decode(const uint8_t* data, size_t size): the copy of size bytes
\* is decoded
Archive_decode_ptr(a, data, size) == Archive_decode(a, SubSeq(data, 1, size))

\* Archive::Archive(const RawData& data): decode is called on the member
\* m_rawData of the archive under construction, which is empty
Archive_RawData(data) == Archive_decode(Archive0, Archive0.m_rawData)

\* Archive::Archive(const uint8_t* data, size_t size)
Archive_ptr(data, size) == Archive_decode_ptr(Archive0, data, size)

\* nothing was constructed of the buffer yet
Unbuilt == [RawData |-> <<>>, ptr |-> <<>>, decode |-> <<>>]

\* the sender encoded a walked graph; its stream, intact, cut or corrupted,
\* is the buffer arg
InitConstruct ==
    \E g \in StreamGraphs :
      \E root \in DOMAIN Walk(g.instances) :
        /\ sc = [kind |-> "stream", added |-> {}]
        /\ snd = Archive_encode([Archive0 EXCEPT !.m_allObjects = Walk(g.instances), !.m_root = root], Memory(SenderAddrs, g.stores), Now)
        /\ arg \in Streams(snd.m_rawData)
        /\ src = Archive0 /\ dst = Archive0
        /\ smem = Memory(SenderAddrs, g.stores) /\ mem = <<>>
        /\ phase = "constructing" /\ err = "" /\ stack = <<>>
        /\ calls = 0 /\ pairs = {} /\ writes = <<>> /\ matches = {}
        /\ src0 = EmptyPool /\ dst0 = EmptyPool
        /\ clock = Now /\ res = Unbuilt

\* what the rest of the state keeps while an archive is constructed
Built == UNCHANGED <<snd, src, dst, smem, mem, phase, err, stack, calls, pairs, writes, matches, src0, dst0, sc, clock, arg>>

\* Archive a(arg)
constructRawData ==
    /\ phase = "constructing" /\ res.RawData = <<>>
    /\ res' = [res EXCEPT !.RawData = Archive_RawData(arg)]
    /\ Built

\* Archive a(&arg[0], arg.size())
constructPtr ==
    /\ phase = "constructing" /\ res.ptr = <<>>
    /\ res' = [res EXCEPT !.ptr = Archive_ptr(arg, Len(arg))]
    /\ Built

\* Archive a; a.decode(arg)
constructDecode ==
    /\ phase = "constructing" /\ res.decode = <<>>
    /\ res' = [res EXCEPT !.decode = Archive_decode(Archive0, arg)]
    /\ Built

NextConstruct == constructRawData \/ constructPtr \/ constructDecode

SpecConstruct == InitConstruct /\ [][NextConstruct]_vars

\* C23 (decoding constructors): the archive constructed of a byte buffer,
\* by Archive(const RawData&) just as by Archive(const uint8_t*, size_t),
\* is left in the state and raises the error that an empty archive is left
\* in and raises when decode() is called on it with the buffer
ConstructorsDecode ==
    /\ (res.RawData # <<>> /\ res.decode # <<>>) => res.RawData = res.decode
    /\ (res.ptr # <<>> /\ res.decode # <<>>) => res.ptr = res.decode


----------------------------------------------------------------------------

\* the pool without the values of its primitive objects, which the sender
\* reads of the live memory and the receiver keeps in m_data
Described(objects) == [k \in DOMAIN objects |-> [objects[k] EXCEPT !.m_data = <<>>]]

\* C24 (encoded streams decode): the stream that rawData() returned is
\* accepted by decode() on an empty archive, which raises no error and is
\* left with the root, the name, the comment and the pool of the archive
\* that encoded it
EncodedStreamsDecode ==
    (arg.op = "rawData" /\ phase = "operating" /\ res # <<>>)
        => /\ Archive_decode(Archive0, res).err = ""
           /\ Archive_decode(Archive0, res).a.m_root = snd.m_root
           /\ Archive_decode(Archive0, res).a.m_name = snd.m_name
           /\ Archive_decode(Archive0, res).a.m_comment = snd.m_comment
           /\ Described(Archive_decode(Archive0, res).a.m_allObjects) = Described(snd.m_allObjects)


----------------------------------------------------------------------------

\* C25 (no read of an erased entry): no invocation of syncObject is behind
\* its erase of the pool entry (line 1160), reading dstObj for the loop over
\* the members, with a dstObj that is a reference into the destination pool
NoReadAfterErase == \A i \in 1..Len(stack) : stack[i].pc = "members" => ~stack[i].inPool


----------------------------------------------------------------------------

\* C26 (injective member matching): within the sync of one class object
\* dstMemberMatching binds no two distinct source members to one and the
\* same destination member
MatchingInjective ==
    \A m1, m2 \in matches :
        (m1.dstObj = m2.dstObj /\ m1.srcObj = m2.srcObj /\ m1.srcMember # m2.srcMember /\ Member_isValid(m1.dstMember) /\ Member_isValid(m2.dstMember))
            => m1.dstMember # m2.dstMember


----------------------------------------------------------------------------

\* the pairs of objects that passed the checks of syncObject up to its erase
Synced == {p \in pairs : p.outcome = "synced"}

\* C27 (each destination object once): in one run of the Syncer every
\* destination identity passes the checks of syncObject and is erased at
\* most once, syncPrimitive is run for no destination primitive twice, and once the sync
\* has returned no destination object that was paired with a valid source
\* object is left as a valid entry of the destination pool
SyncedOnce ==
    /\ \A p, q \in Synced : Object_uid(p.dstObj, 0) = Object_uid(q.dstObj, 0) => p = q
    /\ calls = Cardinality(pairs)
    /\ \A i, j \in 1..Len(writes) : Object_uid(writes[i].dstObj, 0) = Object_uid(writes[j].dstObj, 0) => i = j
    /\ phase = "done" => \A p \in Synced : ~Object_isValid(PoolGet(dst.m_allObjects, Object_uid(p.dstObj, 0)))


\* a sync has returned in which a primitive that a pointer and a member of
\* the destination both lead to was written, once
SharedPrimitiveSynced ==
    /\ phase = "done"
    /\ \E p \in Synced : DataType_isPointer(p.dstObj.m_type) /\ \E i \in 1..Len(writes) : Object_uid(writes[i].dstObj, 0) = Object_uid(p.dstObj, 1)
    /\ \E m \in matches : \E i \in 1..Len(writes) : Object_uid(writes[i].dstObj, 0) = m.dstMember.m_uid /\ \E p \in Synced : DataType_isPointer(p.dstObj.m_type) /\ Object_uid(p.dstObj, 1) = m.dstMember.m_uid


----------------------------------------------------------------------------
(* A pointer of the receiver without a pointee.  The sender's pointer has  *)
(* a registered pointee; the receiver's pointer is null or points at a     *)
(* datum that was never registered.                                        *)

\* struct Holder { int32 k; Leaf* n; } without a registered Leaf: n is target
HolderAlone(base, target) == {Instance(base, Holder_t, <<Field(<<"k">>, 0, int32_t), PointerField(<<"n">>, 8, Leaf_t, target)>>)}

\* the pointer of the receiver is null or points at an unregistered datum
Orphaned ==
    {Scenario("orphan", OwnGraph(SrcBase, UID(SrcBase + 8, 4), pFirst), UID(SrcBase, 16), OwnValues(SrcBase), {}, OwnGraph(DstBase, target, pFirst), UID(DstBase, 16), {}) : pFirst \in BOOLEAN, target \in {NO_UID, UID(DstBase + 32, 4)}}
    \cup {Scenario("orphan", HolderGraph(SrcBase, LeafAt(SrcBase + 16)), UID(SrcBase, 16), HolderValues(SrcBase), {}, HolderAlone(DstBase, target), UID(DstBase, 16), {}) : target \in {NO_UID, UID(DstBase + 16, 8)}}

InitOrphan ==
    \E s \in Orphaned :
        /\ sc = [kind |-> s.kind, added |-> s.added]
        /\ snd = [Archive0 EXCEPT !.m_allObjects = Walk(s.sInstances), !.m_root = s.sRoot]
        /\ src = Archive0
        /\ dst = [Archive0 EXCEPT !.m_allObjects = Walk(s.dInstances), !.m_root = s.dRoot]
        /\ smem = Memory(SenderAddrs, s.stores)
        /\ mem = Memory(ReceiverAddrs, {})
        /\ phase = "walked" /\ err = "" /\ stack = <<>>
        /\ calls = 0 /\ pairs = {} /\ writes = <<>> /\ matches = {}
        /\ src0 = EmptyPool /\ dst0 = EmptyPool
        /\ clock = Now /\ arg = <<>> /\ res = <<>>

SpecOrphan == InitOrphan /\ [][Next]_vars

\* the pool holds a valid object under the key uid
Registered(pool, uid) == uid \in DOMAIN pool /\ Object_isValid(pool[uid])

\* the pairs of pointers that passed the checks of syncObject of which the
\* destination has no pointee in the destination pool and the source has one
Orphans == {p \in Synced : DataType_isPointer(p.dstObj.m_type) /\ ~Registered(dst0, Object_uid(p.dstObj, 1)) /\ Registered(src0, Object_uid(p.srcObj, 1))}

\* the pointee of the source pointer of p was paired by a match of members
\* only, not through the pointer
SkippedSubtree(p) ==
    \A q \in pairs : Object_uid(q.srcObj, 0) = Object_uid(p.srcObj, 1)
        => \E m \in matches : m.dstMember.m_uid = Object_uid(q.dstObj, 0) /\ m.srcMember.m_uid = Object_uid(q.srcObj, 0)

\* C28 (pointer without a pointee): where the destination pointer has no
\* pointee in the destination pool, null or not registered, and the source
\* pointer has a valid one, the sync raises no error, pairs and writes
\* nothing through that pointer, and no write of the sync touches a pointer
\* variable
OrphanPointerSkipped ==
    /\ \A p \in Orphans : phase \notin {"error", "crashed"} /\ SkippedSubtree(p)
    /\ \A p \in Orphans : \A i \in 1..Len(writes) : Object_uid(writes[i].srcObj, 0) = Object_uid(p.srcObj, 1) => \E m \in matches : m.dstMember.m_uid = Object_uid(writes[i].dstObj, 0) /\ m.srcMember.m_uid = Object_uid(writes[i].srcObj, 0)
    /\ \A p \in Synced : DataType_isPointer(p.dstObj.m_type) => \A i \in 1..Len(writes) : Range(writes[i].addr, writes[i].size) \cap Range(Object_uid(p.dstObj, 0).id, p.dstObj.m_type.m_size) = {}

\* a sync has returned that met a destination pointer without a pointee at
\* a source pointer to a class object
OrphanPointerMet == phase = "done" /\ \E p \in Orphans : DataType_isClass(src0[Object_uid(p.srcObj, 1)].m_type) /\ writes # <<>>


----------------------------------------------------------------------------

\* C29 (size assertion of syncPrimitive): whenever syncPrimitive is run the
\* raw data of the source object, as decode() left it, is as long as the
\* type of the destination object is wide: the assert of line 1132 never
\* fails and the memcpy copies just the bytes the source holds
SizeAssertionHolds ==
    /\ err # "Assertion failed: srcObj.rawData().size() == dstObj.type().size()"
    /\ \A i \in 1..Len(writes) : Len(writes[i].srcObj.m_data) = writes[i].size /\ writes[i].size = writes[i].dstObj.m_type.m_size

\* a sync has returned that ran syncPrimitive for a bool and for objects of
\* the widths 1, 4 and 8
PrimitivesOfEachWidthSynced == phase = "done" /\ {writes[i].size : i \in 1..Len(writes)} = {1, 4, 8} /\ \E i \in 1..Len(writes) : DataType_isBool(writes[i].dstObj.m_type)


----------------------------------------------------------------------------

\* C30 (clear): clear() leaves the archive in the state of an archive that
\* Archive() has just constructed: no object, no root, no stream, not
\* modified, both timestamps at the epoch, name and comment empty
ClearResets == arg.op = "clear" => snd = Archive0

====
